---- MODULE Spec2Model ----
(***************************************************************************)
(* Model of the chain-execution engine of the middleware composer:        *)
(* runChain with its synthetic response (createResponse), the per-step    *)
(* scoped view (createScopedResponse), the per-step promise with          *)
(* safeResolve / next / timer, and snapshotResponse / restoreResponse.    *)
(*                                                                         *)
(* A step's capability token (Symbol('step')) is modelled by the step's   *)
(* index in the chain; null is NoToken.  Every datum a handler writes is  *)
(* a record [v, late]: the written value and whether the writing step's   *)
(* timeline entry had already been recorded when the write was issued.    *)
(*                                                                         *)
(* Specifications:                                                         *)
(*   Spec          the guarded runChain, handlers doing anything           *)
(*   SpecTimed     the runChain of composeTimed.ts, with its interval poll *)
(*   SpecRegistry  the guarded runChain on chains of registry handlers     *)
(*   SpecTwoRuns   two invocations of the guarded runChain, interleaved    *)
(*   SpecHeld      the guarded runChain, handlers keeping references       *)
(*   SpecRoute     the routes of composeRoutes.ts and their telemetry      *)
(*   SpecCsrf      the CSRF protection of the server                       *)
(*   SpecClient    the page's apiCall, run and exportCode                  *)
(***************************************************************************)
EXTENDS Integers, Sequences, FiniteSets, TLC

\* ---------------------------------------------------------------- bounds
MaxChain == 3   \* steps in a chain
MaxOps == 2   \* operations the handlers of one run perform in all
MaxActions == 2   \* run/export actions the page starts

\* ------------------------------------------------------------- constants
NoToken == 0

\* step descriptors as buildChain makes them from the registry
Registry == << [key |-> "logger", name |-> "Logger"],
               [key |-> "setHeader", name |-> "Set Header"],
               [key |-> "respond", name |-> "Respond"],
               [key |-> "throwError", name |-> "Throw Error"] >>

\* the chains of the runs: those of at most MaxChain steps
Chains == { [i \in 1..n |-> Registry[((i - 1) % Len(Registry)) + 1]] : n \in 0..MaxChain }

StepIds == 1..MaxChain

\* ------------------------------------------------------------ data values
Datum(v, late) == [v |-> v, late |-> late]
DefaultStatus == Datum("200", FALSE)
Undefined == Datum("undefined", FALSE)

HeaderNames == { "X-Demo", "x-demo" }
LocalKeys == { "user" }
LocalKinds == { "prim", "object", "function" }

toLowerCase(name) == IF name = "X-Demo" THEN "x-demo" ELSE name

EmptyObj == [k \in {} |-> Undefined]

SetKey(f, k, d) == [x \in (DOMAIN f) \cup {k} |-> IF x = k THEN d ELSE f[x]]
DelKey(f, k) == [x \in (DOMAIN f) \ {k} |-> f[x]]

\* error values handed to next(err), thrown, or used as rejection reasons
NoArg == [kind |-> "undefined", message |-> ""]
NeverCalled == [kind |-> "never", message |-> ""]
ErrorValues == { [kind |-> "string", message |-> "boom"],
                 [kind |-> "Error", message |-> "Boom"],
                 [kind |-> "object", message |-> "Missing user id"] }
ThrownValues == { [kind |-> "Error", message |-> "Boom"],
                  [kind |-> "object", message |-> "Missing user id"] }
\* CONFIG.DEFAULT_STEP_TIMEOUT_MS
DEFAULT_STEP_TIMEOUT_MS == 2000

NoMsg == "<undefined>"

Truthy(e) == /\ e.kind # "undefined"
             /\ ~(e.kind = "string" /\ e.message = "")

getErrorMessage(err) ==
  IF err.kind = "string" THEN err.message
  ELSE IF err.kind = "Error" THEN err.message
  ELSE "Error"

VARIABLES
  chain,            \* the steps given to runChain
  pc,               \* position of runChain
  cur,              \* index of the step of the current loop iteration
  activeStepToken,  \* runChain's activeStepToken
  resState,         \* the shared response
  heap,             \* locals objects by identity
  target,           \* per step: the object its guardedLocals proxy wraps
  beforeStep,       \* the current iteration's snapshot
  status, errorMsg, timedOut, resolved, nextCalled,   \* per-step closure variables
  onRespondCallback,
  timerArmed,       \* per step: its setTimeout is pending
  timeline,
  final,            \* the returned RunResult.final, or NoFinal
  hphase,           \* per step: what its handler is doing
  budget,           \* handler operations left to the run's handlers
  firstSignal,      \* per step: the signal that resolved it
  nextArg,          \* per step: the argument of its first continuation call before its entry was recorded
  dropped,          \* a write through a scoped view has been dropped by its guard
  raised,           \* per step: what its handler threw or its promise rejected with, first
  perStepTimeoutMs, \* runChain's perStepTimeoutMs
  ended,            \* composeTimed.ts, per step: its ended flag
  checkInterval,    \* composeTimed.ts, per step: the state of its setInterval poll
  parked,           \* the state of a second runChain invocation in progress, or NoRun
  req,              \* the synthetic request handed to every handler
  syncBody,         \* per step of composeTimed's run: a body was written while the handler was being invoked
  http,             \* the last request the server answered, with its response
  telemetry,        \* composeRoutes.ts: the module-level telemetry object
  now,              \* Date.now()
  seen,             \* what a client saw in the last telemetry report, and the runs completed since
  jar,              \* a browser's cookie jar and the CSRF token it was given
  minted,           \* how many CSRF tokens generateCsrfToken has produced
  client,           \* the browser page: pendingActions and the run/export actions it started
  did,              \* per step: what its handler did before its entry was recorded
  nextCalls         \* per step: how many times its continuation has been called

vars == << chain, pc, cur, activeStepToken, resState, heap, target, beforeStep,
           status, errorMsg, timedOut, resolved, nextCalled, onRespondCallback,
           timerArmed, timeline, final, hphase, budget, firstSignal, nextArg, dropped,
           raised, perStepTimeoutMs, ended, checkInterval, parked, req, syncBody,
           nextCalls, did, http, telemetry, now, seen, jar, minted, client >>

serverVars == << http, telemetry, now, seen, jar, minted, client >>

\* what a handler raised: by a synchronous throw or by a rejection
NotRaised == [by |-> "none", value |-> NoArg, late |-> FALSE]
Raised(by, e, late) == [by |-> by, value |-> e, late |-> late]

NoFinal == [returned |-> FALSE]
NoRun == [live |-> FALSE]
NoSnapshot == [taken |-> FALSE]

\* ------------------------------------------------------------- the server
NoExchange == [route |-> "none", n |-> 0]

\* const telemetry = {...}: the object composeRoutes.ts creates when it is loaded
NewTelemetry(at) ==
  [ totalRuns |-> 0, totalErrors |-> 0, middlewares |-> EmptyObj, lastResetAt |-> at ]

NothingSeen ==
  [ known |-> FALSE, totalRuns |-> 0, middlewares |-> EmptyObj, runsSince |-> 0,
    entriesSince |-> [k \in {} |-> 0], resetSince |-> FALSE ]

EmptyJar == [cookie |-> [kind |-> "none"], token |-> 0]

\* an action of the page that has not been started
IdleAction ==
  [ pc |-> "idle", kind |-> "none", via |-> "none", attempt |-> 0, fetches |-> 0,
    slept |-> 0, refused |-> FALSE, result |-> "none" ]

\* the page once its script has run: let pendingActions = 0
NewClient == [ pendingActions |-> 0, act |-> [a \in 1..MaxActions |-> IdleAction] ]

\* the server after start-up, before its first request
ServerInit ==
  /\ http = NoExchange
  /\ telemetry = NewTelemetry(0)
  /\ now = 0
  /\ seen = NothingSeen
  /\ jar = EmptyJar
  /\ minted = 0
  /\ client = NewClient

\* ------------------------------------------------------------ the request
\* const req: Req = {...}, built from the defaults when no payload is given
createRequest ==
  [ method |-> Datum("GET", FALSE), path |-> Datum("/test", FALSE),
    headers |-> EmptyObj, query |-> EmptyObj, body |-> Datum("null", FALSE) ]

\* --------------------------------------------------------- createResponse
\* a response that starts out marked responded
createResponseSent ==
  [ locals |-> 1,
    statusCode |-> DefaultStatus,
    headers |-> EmptyObj,
    cookies |-> <<>>,
    responded |-> TRUE,
    responseBody |-> Undefined ]

createResponse ==
  [ locals |-> 1,
    statusCode |-> DefaultStatus,
    headers |-> EmptyObj,
    cookies |-> <<>>,
    responded |-> FALSE,
    responseBody |-> Undefined ]

\* a status() that leaves the status code alone
BaseStatusIgnored(r, d) == r

BaseStatus(r, d) == [r EXCEPT !.statusCode = d]
BaseSetHeader(r, name, d) == [r EXCEPT !.headers = SetKey(@, toLowerCase(name), d)]
BaseCookie(r, d) == [r EXCEPT !.cookies = Append(@, d)]
BaseSend(r, d) == [r EXCEPT !.responseBody = d, !.responded = TRUE]
BaseJson(r, d) ==
  BaseSetHeader(BaseSend(r, d), "content-type", [d EXCEPT !.v = "application/json"])

\* ------------------------------------------------ snapshot / restore / preview
\* structuredClone deep-copies plain data and throws DataCloneError on a function
structuredClone(obj) ==
  IF \E k \in DOMAIN obj : obj[k].v = "function"
  THEN [ok |-> FALSE, value |-> EmptyObj]
  ELSE [ok |-> TRUE, value |-> [k \in DOMAIN obj |-> obj[k]]]

snapshotResponse(r, cloneId) ==
  [ taken |-> TRUE,
    locals |-> cloneId,
    statusCode |-> r.statusCode,
    headers |-> r.headers,
    cookies |-> r.cookies,
    responded |-> r.responded,
    responseBody |-> r.responseBody ]

\* a restore that forgets the headers
restoreResponseKeepingHeaders(r, snapshot) ==
  [ locals |-> snapshot.locals,
    statusCode |-> snapshot.statusCode,
    headers |-> r.headers,
    cookies |-> snapshot.cookies,
    responded |-> snapshot.responded,
    responseBody |-> snapshot.responseBody ]

restoreResponse(r, snapshot) ==
  [ locals |-> snapshot.locals,
    statusCode |-> snapshot.statusCode,
    headers |-> snapshot.headers,
    cookies |-> snapshot.cookies,
    responded |-> snapshot.responded,
    responseBody |-> snapshot.responseBody ]

shallowPreview(obj) ==
  [k \in DOMAIN obj |-> IF obj[k].v = "object" THEN "{...}"
                        ELSE IF obj[k].v = "array" THEN "[Array(n)]"
                        ELSE obj[k].v]

\* ------------------------------------------------------------------- Init
\* the state after runChain built req and res, whatever its arguments are
InitRun ==
  /\ pc = "loop"
  /\ cur = 0
  /\ activeStepToken = NoToken
  /\ resState = createResponse
  /\ heap = << EmptyObj >>
  /\ target = [s \in StepIds |-> 0]
  /\ beforeStep = NoSnapshot
  /\ status = [s \in StepIds |-> "ok"]
  /\ errorMsg = [s \in StepIds |-> NoMsg]
  /\ timedOut = [s \in StepIds |-> FALSE]
  /\ resolved = [s \in StepIds |-> FALSE]
  /\ nextCalled = [s \in StepIds |-> FALSE]
  /\ onRespondCallback = NoToken
  /\ timerArmed = [s \in StepIds |-> FALSE]
  /\ timeline = <<>>
  /\ final = NoFinal
  /\ hphase = [s \in StepIds |-> "idle"]
  /\ firstSignal = [s \in StepIds |-> "none"]
  /\ nextArg = [s \in StepIds |-> NeverCalled]
  /\ dropped = FALSE
  /\ raised = [s \in StepIds |-> NotRaised]
  /\ ended = [s \in StepIds |-> FALSE]
  /\ checkInterval = [s \in StepIds |-> "none"]
  /\ nextCalls = [s \in StepIds |-> 0]
  /\ req = createRequest
  /\ syncBody = [s \in StepIds |-> FALSE]
  /\ did = [s \in StepIds |-> {}]
  /\ ServerInit

Init ==
  /\ InitRun
  /\ chain \in Chains
  /\ perStepTimeoutMs = DEFAULT_STEP_TIMEOUT_MS
  /\ budget = MaxOps
  /\ parked = NoRun

\* --------------------------------------------------- createScopedResponse
\* a guard that lets every write through
allowAlways(s) == TRUE

\* isActive(token): (token) => activeStepToken === token
allow(s) == activeStepToken = s

\* the step's timeline entry is recorded: runChain has moved past it
Late(s) == s <= Len(timeline)

\* when the code of step s's handler can run: its synchronous invocation
\* inside the promise executor, or deferred work between runChain's turns
CanRun(s) ==
  /\ s \in 1..cur
  /\ budget > 0
  /\ \/ pc = "sync" /\ s = cur /\ hphase[s] = "sync"
     \/ pc \in {"await", "resolved", "returned", "rejected"} /\ hphase[s] \in {"deferred", "promise"}

Spend(s) == budget' = budget - 1

\* ------------------------------------------------ runChain: safeResolve
\* one resolve function for the whole run: it resolves the step being awaited
safeResolveCurrent(s, signal) ==
  /\ resolved' = [resolved EXCEPT ![cur] = TRUE]
  /\ timerArmed' = IF resolved[cur] THEN timerArmed ELSE [timerArmed EXCEPT ![cur] = FALSE]
  /\ onRespondCallback' = IF resolved[cur] THEN onRespondCallback ELSE NoToken
  /\ firstSignal' = IF resolved[cur] THEN firstSignal ELSE [firstSignal EXCEPT ![cur] = signal]
  /\ pc' = IF ~resolved[cur] /\ pc = "await" THEN "resolved" ELSE pc

\* const safeResolve = () => {...}: one per step, closing over that step's resolved
safeResolve(s, signal) ==
  /\ resolved' = [resolved EXCEPT ![s] = TRUE]
  /\ timerArmed' = IF resolved[s] THEN timerArmed ELSE [timerArmed EXCEPT ![s] = FALSE]
  /\ onRespondCallback' = IF resolved[s] THEN onRespondCallback ELSE NoToken
  /\ firstSignal' = IF resolved[s] THEN firstSignal ELSE [firstSignal EXCEPT ![s] = signal]
  /\ pc' = IF ~resolved[s] /\ pc = "await" THEN "resolved" ELSE pc

noResolve == UNCHANGED << resolved, timerArmed, onRespondCallback, firstSignal, pc >>

\* createResponse's onRespond: () => onRespondCallback?.()
onRespond ==
  IF onRespondCallback # NoToken THEN safeResolve(onRespondCallback, "body") ELSE noResolve

UnchangedRun ==
  UNCHANGED << chain, cur, activeStepToken, beforeStep, timeline, final, target,
               perStepTimeoutMs, ended, checkInterval, parked, req, syncBody, serverVars >>
UnchangedClosure == UNCHANGED << status, errorMsg, timedOut, nextCalled, nextArg, nextCalls >>

\* ------------------------------------------------- the for loop: one step
\* the token left in place after the await
tokenKept == activeStepToken

tokenAfterAwait == NoToken

\* a loop that leaves out the last step
hasNextStepButLast(c, steps) == c < Len(steps) - 1

\* for (const step of chain): another step is left after c of them
hasNextStep(c, steps) == c < Len(steps)

\* a loop that stops on error only
shouldBreakOnError(finalStatus) == finalStatus = "error"

\* a loop that goes on after a short-circuit
shouldBreakOnFailure(finalStatus) == finalStatus \in {"error", "timeout"}

shouldBreak(finalStatus) == finalStatus # "ok"

\* an entry with the step's key and name interchanged
timelineItemSwapped(step, finalStatus, em, locals) ==
  [ key |-> step.name, name |-> step.key, status |-> finalStatus,
    error |-> em, localsPreview |-> shallowPreview(locals) ]

timelineItem(step, finalStatus, em, locals) ==
  [ key |-> step.key, name |-> step.name, status |-> finalStatus,
    error |-> em, localsPreview |-> shallowPreview(locals) ]

StartStep ==
  /\ pc = "loop"
  /\ hasNextStep(cur, chain)
  /\ LET s == cur + 1
         clone == structuredClone(heap[resState.locals])
     IN /\ cur' = s
        /\ target' = [target EXCEPT ![s] = resState.locals]
        /\ activeStepToken' = s
        /\ status' = [status EXCEPT ![s] = "ok"]
        /\ errorMsg' = [errorMsg EXCEPT ![s] = NoMsg]
        /\ IF clone.ok
           THEN /\ heap' = Append(heap, clone.value)
                /\ beforeStep' = snapshotResponse(resState, Len(heap) + 1)
                /\ timedOut' = [timedOut EXCEPT ![s] = FALSE]
                /\ resolved' = [resolved EXCEPT ![s] = FALSE]
                /\ nextCalled' = [nextCalled EXCEPT ![s] = FALSE]
                /\ onRespondCallback' = s
                /\ timerArmed' = [timerArmed EXCEPT ![s] = TRUE]
                /\ hphase' = [hphase EXCEPT ![s] = "sync"]
                /\ pc' = "sync"
           ELSE /\ pc' = "rejected"
                /\ UNCHANGED << heap, beforeStep, timedOut, resolved, nextCalled,
                                onRespondCallback, timerArmed, hphase >>
        /\ UNCHANGED << chain, resState, timeline, final, budget, firstSignal, nextArg, nextCalls, dropped, raised,
                  perStepTimeoutMs, ended, checkInterval, parked, req, syncBody, did, serverVars >>

\* lines after the await: deactivate, classify, roll back, record, decide
\* a classification that keeps what the scheduler reported
finalStatusAsReported(responded, st) == st

\* finalStatus: ok is reclassified when the response is marked responded
finalStatusOf(responded, st) == IF responded /\ st = "ok" THEN "short-circuit" ELSE st

\* a recorder that keeps one entry per run, overwriting the previous one
pushOver(tl, item) == IF tl = <<>> THEN << item >> ELSE [tl EXCEPT ![Len(tl)] = item]

\* timeline.push(item)
push(tl, item) == Append(tl, item)

\* a continuation that also rolls back a step that ended in error
ContinueRestoringOnError(st, em, to) ==
  LET finalStatus == finalStatusOf(resState.responded, st)
      res2 == IF to \/ st = "error" THEN restoreResponse(resState, beforeStep) ELSE resState
  IN /\ activeStepToken' = tokenAfterAwait
     /\ resState' = res2
     /\ timeline' = push(timeline, timelineItem(chain[cur], finalStatus, em, heap[res2.locals]))
     /\ pc' = IF shouldBreak(finalStatus) THEN "exit" ELSE "loop"

Continue(st, em, to) ==
  LET finalStatus == finalStatusOf(resState.responded, st)
      res2 == IF to THEN restoreResponse(resState, beforeStep) ELSE resState
  IN /\ activeStepToken' = tokenAfterAwait
     /\ resState' = res2
     /\ timeline' = push(timeline, timelineItem(chain[cur], finalStatus, em, heap[res2.locals]))
     /\ pc' = IF shouldBreak(finalStatus) THEN "exit" ELSE "loop"

Resume ==
  /\ pc = "resolved"
  /\ Continue(status[cur], errorMsg[cur], timedOut[cur])
  /\ UNCHANGED << chain, cur, heap, target, beforeStep, status, errorMsg, timedOut,
                  resolved, nextCalled, onRespondCallback, timerArmed, final,
                  hphase, budget, firstSignal, nextArg, nextCalls, dropped, raised,
                  perStepTimeoutMs, ended, checkInterval, parked, req, syncBody, did, serverVars >>

\* the setTimeout callback; the awaiting runChain continues right after it
TimerFire ==
  /\ pc = "await"
  /\ timerArmed[cur]
  /\ ~resolved[cur]
  /\ timedOut' = [timedOut EXCEPT ![cur] = TRUE]
  /\ status' = [status EXCEPT ![cur] = "timeout"]
  /\ resolved' = [resolved EXCEPT ![cur] = TRUE]
  /\ timerArmed' = [timerArmed EXCEPT ![cur] = FALSE]
  /\ onRespondCallback' = NoToken
  /\ firstSignal' = [firstSignal EXCEPT ![cur] = "timer"]
  /\ Continue("timeout", errorMsg[cur], TRUE)
  /\ UNCHANGED << chain, cur, heap, target, beforeStep, errorMsg, nextCalled, final,
                  hphase, budget, nextArg, nextCalls, dropped, raised,
                  perStepTimeoutMs, ended, checkInterval, parked, req, syncBody, did, serverVars >>

ReturnResult ==
  /\ \/ pc = "exit"
     \/ pc = "loop" /\ ~hasNextStep(cur, chain)
  /\ final' = [ returned |-> TRUE,
                statusCode |-> resState.statusCode,
                headers |-> resState.headers,
                cookies |-> resState.cookies,
                locals |-> resState.locals,
                responded |-> resState.responded,
                body |-> resState.responseBody ]
  /\ pc' = "returned"
  /\ UNCHANGED << chain, cur, activeStepToken, resState, heap, target, beforeStep,
                  status, errorMsg, timedOut, resolved, nextCalled, onRespondCallback,
                  timerArmed, timeline, hphase, budget, firstSignal, nextArg, nextCalls, dropped, raised,
                  perStepTimeoutMs, ended, checkInterval, parked, req, syncBody, did, serverVars >>

\* ------------------------------------------- handler operations (step s)
\* everything of the run that a scoped write leaves alone
WriteFrame(s) ==
  /\ Spend(s)
  /\ dropped' = (dropped \/ ~allow(s))
  /\ UNCHANGED raised
  /\ UnchangedRun
  /\ UnchangedClosure
  /\ UNCHANGED hphase

\* scoped.status(code)
ScopedStatus(s) ==
  /\ CanRun(s)
  /\ resState' = IF allow(s) THEN BaseStatus(resState, Datum("201", Late(s))) ELSE resState
  /\ noResolve
  /\ UNCHANGED << heap, did >>
  /\ WriteFrame(s)

\* scoped.setHeader(name, value)
ScopedSetHeader(s, name) ==
  /\ CanRun(s)
  /\ resState' = IF allow(s) THEN BaseSetHeader(resState, name, Datum("42", Late(s))) ELSE resState
  /\ noResolve
  /\ UNCHANGED << heap, did >>
  /\ WriteFrame(s)

\* scoped.cookie(name, value, options)
ScopedCookie(s) ==
  /\ CanRun(s)
  /\ resState' = IF allow(s) THEN BaseCookie(resState, Datum("ssid", Late(s))) ELSE resState
  /\ noResolve
  /\ UNCHANGED << heap, did >>
  /\ WriteFrame(s)

\* scoped.json(data)
ScopedJson(s) ==
  /\ CanRun(s)
  /\ IF allow(s)
     THEN /\ resState' = BaseJson(resState, Datum("body", Late(s)))
          /\ onRespond
     ELSE /\ UNCHANGED resState
          /\ noResolve
  /\ UNCHANGED heap
  /\ did' = IF allow(s) THEN [did EXCEPT ![s] = @ \cup {"body"}] ELSE did
  /\ WriteFrame(s)

\* scoped.send(data)
ScopedSend(s) ==
  /\ CanRun(s)
  /\ IF allow(s)
     THEN /\ resState' = BaseSend(resState, Datum("body", Late(s)))
          /\ onRespond
     ELSE /\ UNCHANGED resState
          /\ noResolve
  /\ UNCHANGED heap
  /\ did' = IF allow(s) THEN [did EXCEPT ![s] = @ \cup {"body"}] ELSE did
  /\ WriteFrame(s)

\* scoped.locals[k] = value: the set trap of guardedLocals
LocalsSet(s, k, kind) ==
  /\ CanRun(s)
  /\ heap' = IF allow(s)
             THEN [heap EXCEPT ![target[s]] = SetKey(@, k, Datum(kind, Late(s)))]
             ELSE heap
  /\ noResolve
  /\ UNCHANGED << resState, did >>
  /\ WriteFrame(s)

\* delete scoped.locals[k]: the deleteProperty trap of guardedLocals
LocalsDelete(s, k) ==
  /\ CanRun(s)
  /\ k \in DOMAIN heap[target[s]]
  /\ heap' = IF allow(s) THEN [heap EXCEPT ![target[s]] = DelKey(@, k)] ELSE heap
  /\ noResolve
  /\ UNCHANGED << resState, did >>
  /\ WriteFrame(s)

\* the property setters of the scoped view
AssignFields == { "locals", "statusCode", "headers", "cookies", "responded", "responseBody" }

ScopedAssign(s, field, flag) ==
  /\ CanRun(s)
  /\ LET d == Datum("set", Late(s))
     IN IF allow(s)
        THEN /\ resState' =
                  CASE field = "locals" -> [resState EXCEPT !.locals = Len(heap) + 1]
                    [] field = "statusCode" -> [resState EXCEPT !.statusCode = d]
                    [] field = "headers" -> [resState EXCEPT !.headers = SetKey(EmptyObj, "x-set", d)]
                    [] field = "cookies" -> [resState EXCEPT !.cookies = << d >>]
                    [] field = "responded" -> [resState EXCEPT !.responded = flag]
                    [] field = "responseBody" -> [resState EXCEPT !.responseBody = d]
             /\ heap' = IF field = "locals" THEN Append(heap, SetKey(EmptyObj, "user", d)) ELSE heap
        ELSE UNCHANGED << resState, heap >>
  /\ did' = IF allow(s) /\ field = "responded" /\ flag
             THEN [did EXCEPT ![s] = @ \cup {"flag"}] ELSE did
  /\ noResolve
  /\ WriteFrame(s)

\* a continuation that never counts as called
notYetCalled(s) == FALSE

\* if (nextCalled) return
alreadyCalled(s) == nextCalled[s]

\* next(err)
next(s, err) ==
  /\ CanRun(s)
  /\ Spend(s)
  /\ nextCalls' = [nextCalls EXCEPT ![s] = @ + 1]
  /\ nextArg' = IF nextArg[s] = NeverCalled /\ ~Late(s) THEN [nextArg EXCEPT ![s] = err] ELSE nextArg
  /\ IF alreadyCalled(s)
     THEN /\ noResolve
          /\ UNCHANGED << nextCalled, status, errorMsg >>
     ELSE /\ nextCalled' = [nextCalled EXCEPT ![s] = TRUE]
          /\ IF Truthy(err)
             THEN /\ status' = [status EXCEPT ![s] = "error"]
                  /\ errorMsg' = [errorMsg EXCEPT ![s] = getErrorMessage(err)]
             ELSE UNCHANGED << status, errorMsg >>
          /\ safeResolve(s, IF Truthy(err) THEN "nextErr" ELSE "next")
  /\ UnchangedRun
  /\ UNCHANGED << resState, heap, timedOut, hphase, dropped, raised, did >>

\* the handler's synchronous invocation returns: a plain value or a pending promise
HandlerReturn(s, p) ==
  /\ pc = "sync"
  /\ s = cur
  /\ hphase[s] = "sync"
  /\ hphase' = [hphase EXCEPT ![s] = p]
  /\ pc' = IF resolved[s] THEN "resolved" ELSE "await"
  /\ UnchangedRun
  /\ UnchangedClosure
  /\ UNCHANGED << resState, heap, resolved, timerArmed, onRespondCallback, firstSignal, budget, dropped, raised, did >>

\* the handler throws during its synchronous invocation: the catch block
HandlerThrow(s, e) ==
  /\ pc = "sync"
  /\ s = cur
  /\ hphase[s] = "sync"
  /\ hphase' = [hphase EXCEPT ![s] = "deferred"]
  /\ status' = [status EXCEPT ![s] = "error"]
  /\ errorMsg' = [errorMsg EXCEPT ![s] = getErrorMessage(e)]
  /\ resolved' = [resolved EXCEPT ![s] = TRUE]
  /\ timerArmed' = IF resolved[s] THEN timerArmed ELSE [timerArmed EXCEPT ![s] = FALSE]
  /\ onRespondCallback' = IF resolved[s] THEN onRespondCallback ELSE NoToken
  /\ firstSignal' = IF resolved[s] THEN firstSignal ELSE [firstSignal EXCEPT ![s] = "throw"]
  /\ pc' = "resolved"
  /\ raised' = IF raised[s] = NotRaised THEN [raised EXCEPT ![s] = Raised("throw", e, Late(s))] ELSE raised
  /\ UnchangedRun
  /\ UNCHANGED << resState, heap, timedOut, nextCalled, nextArg, nextCalls, budget, dropped, did >>

\* the promise the handler returned rejects: maybe.catch(...)
PromiseReject(s, e) ==
  /\ s \in 1..cur
  /\ hphase[s] = "promise"
  /\ pc \in {"await", "resolved", "returned", "rejected"}
  /\ hphase' = [hphase EXCEPT ![s] = "deferred"]
  /\ status' = [status EXCEPT ![s] = "error"]
  /\ errorMsg' = [errorMsg EXCEPT ![s] = getErrorMessage(e)]
  /\ safeResolve(s, "reject")
  /\ raised' = IF raised[s] = NotRaised THEN [raised EXCEPT ![s] = Raised("reject", e, Late(s))] ELSE raised
  /\ UnchangedRun
  /\ UNCHANGED << resState, heap, timedOut, nextCalled, nextArg, nextCalls, budget, dropped, did >>

\* the promise the handler returned fulfils: nothing is registered for it
PromiseFulfil(s) ==
  /\ s \in 1..cur
  /\ hphase[s] = "promise"
  /\ pc \in {"await", "resolved", "returned", "rejected"}
  /\ hphase' = [hphase EXCEPT ![s] = "deferred"]
  /\ noResolve
  /\ UnchangedRun
  /\ UnchangedClosure
  /\ did' = IF Late(s) THEN did ELSE [did EXCEPT ![s] = @ \cup {"fulfil"}]
  /\ UNCHANGED << resState, heap, budget, dropped, raised >>

Next ==
  \/ StartStep
  \/ Resume
  \/ TimerFire
  \/ ReturnResult
  \/ \E s \in StepIds : ScopedStatus(s)
  \/ \E s \in StepIds, name \in HeaderNames : ScopedSetHeader(s, name)
  \/ \E s \in StepIds : ScopedCookie(s)
  \/ \E s \in StepIds : ScopedJson(s)
  \/ \E s \in StepIds : ScopedSend(s)
  \/ \E s \in StepIds, k \in LocalKeys, kind \in LocalKinds : LocalsSet(s, k, kind)
  \/ \E s \in StepIds, k \in LocalKeys : LocalsDelete(s, k)
  \/ \E s \in StepIds, field \in AssignFields, flag \in BOOLEAN : ScopedAssign(s, field, flag)
  \/ \E s \in StepIds, err \in ErrorValues \cup {NoArg} : next(s, err)
  \/ \E s \in StepIds, p \in {"deferred", "promise"} : HandlerReturn(s, p)
  \/ \E s \in StepIds, e \in ThrownValues : HandlerThrow(s, e)
  \/ \E s \in StepIds, e \in ThrownValues : PromiseReject(s, e)
  \/ \E s \in StepIds : PromiseFulfil(s)

Spec == Init /\ [][Next]_vars

\* ====================================================================
\* src/src/composer/composeTimed.ts: runChain with the interval poll
\* ====================================================================
CHECK_INTERVAL_MS == 10

\* values of perStepTimeoutMs: one below the poll interval, and the default
TimeoutValues == { 5, DEFAULT_STEP_TIMEOUT_MS }

\* getErrorMessage of composeTimed.ts: err?.message || 'Error' for non-strings
getErrorMessageTimed(err) ==
  IF err.kind = "string" THEN err.message
  ELSE IF err.message # "" THEN err.message
  ELSE "Error"

TimedInit ==
  /\ InitRun
  /\ chain \in Chains
  /\ perStepTimeoutMs \in TimeoutValues
  /\ budget = MaxOps
  /\ parked = NoRun

\* what this runChain does not have: token, scoped views, snapshot, callback
TimedShared ==
  UNCHANGED << chain, perStepTimeoutMs, activeStepToken, heap, target, beforeStep,
               timedOut, resolved, onRespondCallback, dropped, parked, req, serverVars >>

TimedFrame == TimedShared /\ UNCHANGED << syncBody, did >>

TimedStartStep ==
  /\ pc = "loop"
  /\ hasNextStep(cur, chain)
  /\ LET s == cur + 1
     IN /\ cur' = s
        /\ ended' = [ended EXCEPT ![s] = FALSE]
        /\ status' = [status EXCEPT ![s] = "ok"]
        /\ errorMsg' = [errorMsg EXCEPT ![s] = NoMsg]
        /\ nextCalled' = [nextCalled EXCEPT ![s] = FALSE]
        /\ timerArmed' = [timerArmed EXCEPT ![s] = TRUE]
        /\ hphase' = [hphase EXCEPT ![s] = "sync"]
        /\ pc' = "sync"
  /\ UNCHANGED << resState, timeline, final, budget, firstSignal, nextArg, nextCalls, raised, checkInterval >>
  /\ TimedFrame

\* lines after the await: classify, record, decide
TimedContinue(st, em) ==
  LET fs == finalStatusOf(resState.responded, st)
  IN /\ timeline' = Append(timeline, timelineItem(chain[cur], fs, em, heap[resState.locals]))
     /\ pc' = IF shouldBreak(fs) THEN "exit" ELSE "loop"

TimedResume ==
  /\ pc = "resolved"
  /\ TimedContinue(status[cur], errorMsg[cur])
  /\ UNCHANGED << cur, resState, status, errorMsg, nextCalled, timerArmed, final, hphase,
                  budget, firstSignal, nextArg, nextCalls, raised, ended, checkInterval >>
  /\ TimedFrame

\* a poll created in the task that armed the timer ticks first exactly when
\* the timeout is longer than the poll interval
TimerBeforeFirstTick(s) ==
  checkInterval[s] = "early" => perStepTimeoutMs <= CHECK_INTERVAL_MS

\* the setTimeout callback; the awaiting runChain continues right after it
TimedTimerFire ==
  /\ pc = "await"
  /\ timerArmed[cur]
  /\ TimerBeforeFirstTick(cur)
  /\ timerArmed' = [timerArmed EXCEPT ![cur] = FALSE]
  /\ IF ~ended[cur]
     THEN /\ status' = [status EXCEPT ![cur] = "timeout"]
          /\ ended' = [ended EXCEPT ![cur] = TRUE]
          /\ firstSignal' = [firstSignal EXCEPT ![cur] = "timer"]
          /\ TimedContinue("timeout", errorMsg[cur])
     ELSE UNCHANGED << status, ended, firstSignal, timeline, pc >>
  /\ UNCHANGED << cur, resState, errorMsg, nextCalled, final, hphase, budget, nextArg, nextCalls,
                  raised, checkInterval >>
  /\ TimedFrame

\* one tick of step s's setInterval callback
TimedIntervalTick(s) ==
  /\ pc \in {"await", "returned"}
  /\ s \in 1..cur
  /\ checkInterval[s] \in {"early", "running"}
  /\ ~(checkInterval[s] = "early" /\ timerArmed[s] /\ perStepTimeoutMs <= CHECK_INTERVAL_MS)
  /\ IF nextCalled[s] \/ resState.responded
     THEN /\ checkInterval' = [checkInterval EXCEPT ![s] = "cleared"]
          /\ timerArmed' = [timerArmed EXCEPT ![s] = FALSE]
          /\ ended' = [ended EXCEPT ![s] = TRUE]
          /\ firstSignal' = IF ended[s] THEN firstSignal ELSE [firstSignal EXCEPT ![s] = "poll"]
          /\ IF s = cur /\ pc = "await"
             THEN TimedContinue(status[cur], errorMsg[cur])
             ELSE UNCHANGED << timeline, pc >>
     ELSE /\ checkInterval' = [checkInterval EXCEPT ![s] = "running"]
          /\ UNCHANGED << timerArmed, ended, firstSignal, timeline, pc >>
  /\ UNCHANGED << cur, resState, status, errorMsg, nextCalled, final, hphase, budget,
                  nextArg, nextCalls, raised >>
  /\ TimedFrame

\* what a handler operation leaves alone
TimedWriteFrame(s) ==
  /\ Spend(s)
  /\ UNCHANGED << cur, timeline, final, hphase, status, errorMsg, nextCalled, timerArmed,
                  pc, firstSignal, nextArg, nextCalls, raised, ended, checkInterval >>
  /\ TimedShared

\* res.status(code): the handler holds the response itself
TimedStatus(s) ==
  /\ CanRun(s)
  /\ resState' = BaseStatus(resState, Datum("201", Late(s)))
  /\ UNCHANGED << syncBody, did >>
  /\ TimedWriteFrame(s)

\* res.json(data): no completion callback
TimedJson(s) ==
  /\ CanRun(s)
  /\ resState' = BaseJson(resState, Datum("body", Late(s)))
  /\ syncBody' = IF pc = "sync" THEN [syncBody EXCEPT ![s] = TRUE] ELSE syncBody
  /\ did' = IF Late(s) THEN did ELSE [did EXCEPT ![s] = @ \cup {"body"}]
  /\ TimedWriteFrame(s)

\* next(err), without a nextCalled guard
TimedNext(s, err) ==
  /\ CanRun(s)
  /\ Spend(s)
  /\ nextCalls' = [nextCalls EXCEPT ![s] = @ + 1]
  /\ nextArg' = IF nextArg[s] = NeverCalled /\ ~Late(s) THEN [nextArg EXCEPT ![s] = err] ELSE nextArg
  /\ nextCalled' = [nextCalled EXCEPT ![s] = TRUE]
  /\ IF Truthy(err)
     THEN /\ status' = [status EXCEPT ![s] = "error"]
          /\ errorMsg' = [errorMsg EXCEPT ![s] = getErrorMessageTimed(err)]
     ELSE UNCHANGED << status, errorMsg >>
  /\ timerArmed' = [timerArmed EXCEPT ![s] = FALSE]
  /\ ended' = [ended EXCEPT ![s] = TRUE]
  /\ firstSignal' = IF ended[s] THEN firstSignal
                    ELSE [firstSignal EXCEPT ![s] = IF Truthy(err) THEN "nextErr" ELSE "next"]
  /\ pc' = IF s = cur /\ pc = "await" THEN "resolved" ELSE pc
  /\ UNCHANGED << cur, resState, timeline, final, hphase, raised, checkInterval >>
  /\ TimedFrame

\* the handler's synchronous invocation returns: a plain value, after which
\* the poll is created at once, or a pending promise, which is awaited
TimedHandlerReturn(s, p) ==
  /\ pc = "sync"
  /\ s = cur
  /\ hphase[s] = "sync"
  /\ hphase' = [hphase EXCEPT ![s] = p]
  /\ checkInterval' = IF p = "deferred" THEN [checkInterval EXCEPT ![s] = "early"] ELSE checkInterval
  /\ pc' = IF ended[s] THEN "resolved" ELSE "await"
  /\ UNCHANGED << cur, resState, timeline, final, status, errorMsg, nextCalled, timerArmed,
                  budget, firstSignal, nextArg, nextCalls, raised, ended >>
  /\ TimedFrame

\* the handler throws during its synchronous invocation: the catch block
TimedHandlerThrow(s, e) ==
  /\ pc = "sync"
  /\ s = cur
  /\ hphase[s] = "sync"
  /\ hphase' = [hphase EXCEPT ![s] = "deferred"]
  /\ status' = [status EXCEPT ![s] = "error"]
  /\ errorMsg' = [errorMsg EXCEPT ![s] = getErrorMessageTimed(e)]
  /\ timerArmed' = [timerArmed EXCEPT ![s] = FALSE]
  /\ ended' = [ended EXCEPT ![s] = TRUE]
  /\ firstSignal' = IF ended[s] THEN firstSignal ELSE [firstSignal EXCEPT ![s] = "throw"]
  /\ raised' = IF raised[s] = NotRaised THEN [raised EXCEPT ![s] = Raised("throw", e, Late(s))] ELSE raised
  /\ pc' = "resolved"
  /\ UNCHANGED << cur, resState, timeline, final, nextCalled, budget, nextArg, nextCalls, checkInterval >>
  /\ TimedFrame

\* the awaited promise rejects: the catch callback runs, then the poll is created
TimedPromiseReject(s, e) ==
  /\ s \in 1..cur
  /\ hphase[s] = "promise"
  /\ pc \in {"await", "resolved", "returned"}
  /\ hphase' = [hphase EXCEPT ![s] = "deferred"]
  /\ status' = [status EXCEPT ![s] = "error"]
  /\ errorMsg' = [errorMsg EXCEPT ![s] = getErrorMessageTimed(e)]
  /\ raised' = IF raised[s] = NotRaised THEN [raised EXCEPT ![s] = Raised("reject", e, Late(s))] ELSE raised
  /\ checkInterval' = [checkInterval EXCEPT ![s] = "running"]
  /\ UNCHANGED << cur, resState, timeline, final, nextCalled, timerArmed, budget,
                  firstSignal, nextArg, nextCalls, ended, pc >>
  /\ TimedFrame

\* the awaited promise fulfils: the poll is created
TimedPromiseFulfil(s) ==
  /\ s \in 1..cur
  /\ hphase[s] = "promise"
  /\ pc \in {"await", "resolved", "returned"}
  /\ hphase' = [hphase EXCEPT ![s] = "deferred"]
  /\ checkInterval' = [checkInterval EXCEPT ![s] = "running"]
  /\ UNCHANGED << cur, resState, timeline, final, status, errorMsg, nextCalled, timerArmed,
                  budget, firstSignal, nextArg, nextCalls, raised, ended, pc >>
  /\ did' = IF Late(s) THEN did ELSE [did EXCEPT ![s] = @ \cup {"fulfil"}]
  /\ UNCHANGED syncBody
  /\ TimedShared

NextTimed ==
  \/ TimedStartStep
  \/ TimedResume
  \/ TimedTimerFire
  \/ \E s \in StepIds : TimedIntervalTick(s)
  \/ ReturnResult
  \/ \E s \in StepIds : TimedStatus(s)
  \/ \E s \in StepIds : TimedJson(s)
  \/ \E s \in StepIds, err \in ErrorValues \cup {NoArg} : TimedNext(s, err)
  \/ \E s \in StepIds, p \in {"deferred", "promise"} : TimedHandlerReturn(s, p)
  \/ \E s \in StepIds, e \in ThrownValues : TimedHandlerThrow(s, e)
  \/ \E s \in StepIds, e \in ThrownValues : TimedPromiseReject(s, e)
  \/ \E s \in StepIds : TimedPromiseFulfil(s)

SpecTimed == TimedInit /\ [][NextTimed]_vars

\* ====================================================================
\* Runs of chains built from the registry's handlers
\* ====================================================================
SetCookieStep == [key |-> "setCookie", name |-> "Set Cookie"]

\* registry handlers that make one write and then call next()
NextOnlySteps == { Registry[1], Registry[2], SetCookieStep }

\* k such steps followed by respond
RespondChains ==
  UNION { { Append(c, Registry[3]) : c \in [1..k -> NextOnlySteps] } : k \in 0..(MaxChain - 1) }

\* each of these handlers makes two calls: a write and next(), or status and json
RegistryInit ==
  /\ InitRun
  /\ perStepTimeoutMs = DEFAULT_STEP_TIMEOUT_MS
  /\ chain \in RespondChains
  /\ budget = Len(chain) + Len(chain)
  /\ parked = NoRun

\* calls left to step s's handler
CallsLeft(s) == budget - ((Len(chain) - s) + (Len(chain) - s))

\* logger: res.locals.logs = [...existingLogs, line]
LoggerWrite(s) ==
  /\ s \in 1..cur
  /\ chain[s].key = "logger"
  /\ CallsLeft(s) = 2
  /\ LocalsSet(s, "logs", "array")

\* setHeader: res.setHeader(String(name), String(value))
SetHeaderWrite(s) ==
  /\ s \in 1..cur
  /\ chain[s].key = "setHeader"
  /\ CallsLeft(s) = 2
  /\ ScopedSetHeader(s, "x-demo")

\* setCookie: res.cookie(String(name), String(value), {...})
SetCookieWrite(s) ==
  /\ s \in 1..cur
  /\ chain[s].key = "setCookie"
  /\ CallsLeft(s) = 2
  /\ ScopedCookie(s)

\* logger, setHeader, setCookie: next()
CallNext(s) ==
  /\ s \in 1..cur
  /\ chain[s] \in NextOnlySteps
  /\ CallsLeft(s) = 1
  /\ next(s, NoArg)

\* respond: res.status(Number(status))
RespondStatus(s) ==
  /\ s \in 1..cur
  /\ chain[s].key = "respond"
  /\ CallsLeft(s) = 2
  /\ ScopedStatus(s)

\* respond: .json(body), and no call of next
RespondJson(s) ==
  /\ s \in 1..cur
  /\ chain[s].key = "respond"
  /\ CallsLeft(s) = 1
  /\ ScopedJson(s)

\* the handler returns after its two calls
RegistryReturn(s) ==
  /\ s \in 1..cur
  /\ CallsLeft(s) = 0
  /\ HandlerReturn(s, "deferred")

NextRegistry ==
  \/ StartStep
  \/ Resume
  \/ ReturnResult
  \/ \E s \in StepIds : LoggerWrite(s)
  \/ \E s \in StepIds : SetHeaderWrite(s)
  \/ \E s \in StepIds : SetCookieWrite(s)
  \/ \E s \in StepIds : CallNext(s)
  \/ \E s \in StepIds : RespondStatus(s)
  \/ \E s \in StepIds : RespondJson(s)
  \/ \E s \in StepIds : RegistryReturn(s)

SpecRegistry == RegistryInit /\ [][NextRegistry]_vars

\* ====================================================================
\* Two runChain invocations in progress at the same time
\* ====================================================================
\* everything runChain declares inside its body, for the run in focus
ThisRun ==
  [ live |-> TRUE, chain |-> chain, pc |-> pc, cur |-> cur,
    activeStepToken |-> activeStepToken, resState |-> resState, heap |-> heap,
    target |-> target, beforeStep |-> beforeStep, status |-> status,
    errorMsg |-> errorMsg, timedOut |-> timedOut, resolved |-> resolved,
    nextCalled |-> nextCalled, onRespondCallback |-> onRespondCallback,
    timerArmed |-> timerArmed, timeline |-> timeline, final |-> final,
    hphase |-> hphase, budget |-> budget, firstSignal |-> firstSignal,
    nextArg |-> nextArg, dropped |-> dropped, raised |-> raised,
    nextCalls |-> nextCalls, req |-> req, did |-> did ]

\* a run whose loop has not started, with one handler operation to perform
FreshRun(c) ==
  [ live |-> TRUE, chain |-> c, pc |-> "loop", cur |-> 0,
    activeStepToken |-> NoToken, resState |-> createResponse, heap |-> << EmptyObj >>,
    target |-> [s \in StepIds |-> 0], beforeStep |-> NoSnapshot,
    status |-> [s \in StepIds |-> "ok"], errorMsg |-> [s \in StepIds |-> NoMsg],
    timedOut |-> [s \in StepIds |-> FALSE], resolved |-> [s \in StepIds |-> FALSE],
    nextCalled |-> [s \in StepIds |-> FALSE], onRespondCallback |-> NoToken,
    timerArmed |-> [s \in StepIds |-> FALSE], timeline |-> <<>>, final |-> NoFinal,
    hphase |-> [s \in StepIds |-> "idle"], budget |-> 1,
    firstSignal |-> [s \in StepIds |-> "none"],
    nextArg |-> [s \in StepIds |-> NeverCalled], dropped |-> FALSE,
    raised |-> [s \in StepIds |-> NotRaised],
    nextCalls |-> [s \in StepIds |-> 0], req |-> createRequest,
    did |-> [s \in StepIds |-> {}] ]

TwoInit ==
  /\ InitRun
  /\ chain \in Chains
  /\ perStepTimeoutMs = DEFAULT_STEP_TIMEOUT_MS
  /\ budget = 1
  /\ ThisRun = FreshRun(chain)
  /\ parked \in { FreshRun(c) : c \in Chains }

\* an active token kept in one variable of the module, common to the runs
tokenOfModule(common, own) == common

\* let activeStepToken inside runChain: the run that continues finds its own
tokenOfRun(common, own) == own

\* the event loop leaves the run in focus at one of its awaits (or before its
\* start, or after its return) and continues the other run
Switch ==
  /\ parked.live
  /\ pc # "sync"
  /\ parked' = ThisRun
  /\ chain' = parked.chain
  /\ pc' = parked.pc
  /\ cur' = parked.cur
  /\ activeStepToken' = tokenOfRun(activeStepToken, parked.activeStepToken)
  /\ resState' = parked.resState
  /\ heap' = parked.heap
  /\ target' = parked.target
  /\ beforeStep' = parked.beforeStep
  /\ status' = parked.status
  /\ errorMsg' = parked.errorMsg
  /\ timedOut' = parked.timedOut
  /\ resolved' = parked.resolved
  /\ nextCalled' = parked.nextCalled
  /\ onRespondCallback' = parked.onRespondCallback
  /\ timerArmed' = parked.timerArmed
  /\ timeline' = parked.timeline
  /\ final' = parked.final
  /\ hphase' = parked.hphase
  /\ budget' = parked.budget
  /\ firstSignal' = parked.firstSignal
  /\ nextArg' = parked.nextArg
  /\ dropped' = parked.dropped
  /\ raised' = parked.raised
  /\ nextCalls' = parked.nextCalls
  /\ req' = parked.req
  /\ did' = parked.did
  /\ UNCHANGED << perStepTimeoutMs, ended, checkInterval, syncBody, serverVars >>

NextTwoRuns ==
  \/ Switch
  \/ StartStep
  \/ Resume
  \/ TimerFire
  \/ ReturnResult
  \/ \E s \in StepIds : ScopedJson(s)
  \/ \E s \in StepIds : ScopedSetHeader(s, "x-demo")
  \/ \E s \in StepIds, err \in ErrorValues \cup {NoArg} : next(s, err)
  \/ \E s \in StepIds : HandlerReturn(s, "deferred")

SpecTwoRuns == TwoInit /\ [][NextTwoRuns]_vars

\* ====================================================================
\* Objects a handler holds by reference: the request, and what the read
\* accessors of its scoped view return
\* ====================================================================
ReqFields == { "method", "path", "headers", "query", "body" }

\* everything but the request and the response that such a write leaves alone
HeldFrame(s) ==
  /\ Spend(s)
  /\ noResolve
  /\ UnchangedClosure
  /\ UNCHANGED << chain, cur, activeStepToken, beforeStep, timeline, target,
                  perStepTimeoutMs, ended, checkInterval, parked, hphase, dropped, raised, syncBody, did,
                  serverVars >>

\* the object literal runChain returns holds resState's header map and cookie list
finalAlias(res) ==
  IF final.returned THEN [final EXCEPT !.headers = res.headers, !.cookies = res.cookies] ELSE final

\* req[field] = value: req is a plain object, handed to the handler as it is
ReqAssign(s, field) ==
  /\ CanRun(s)
  /\ req' = [req EXCEPT ![field] = Datum("changed", Late(s))]
  /\ UNCHANGED << resState, heap, final >>
  /\ HeldFrame(s)

\* scoped.headers[name] = value: get headers() returns base.headers itself
HeadersWrite(s) ==
  /\ CanRun(s)
  /\ resState' = [resState EXCEPT !.headers = SetKey(@, "x-held", Datum("held", Late(s)))]
  /\ final' = finalAlias(resState')
  /\ UNCHANGED << req, heap >>
  /\ HeldFrame(s)

\* scoped.cookies.push(cookie): get cookies() returns base.cookies itself
CookiesPush(s) ==
  /\ CanRun(s)
  /\ resState' = [resState EXCEPT !.cookies = Append(@, Datum("held", Late(s)))]
  /\ final' = finalAlias(resState')
  /\ UNCHANGED << req, heap >>
  /\ HeldFrame(s)

\* scoped.locals[k].field = value: the get trap returns the nested object itself
NestedWrite(s, k) ==
  /\ CanRun(s)
  /\ k \in DOMAIN heap[target[s]]
  /\ heap[target[s]][k].v = "object"
  /\ heap' = [heap EXCEPT ![target[s]][k] = Datum("object", Late(s))]
  /\ UNCHANGED << req, resState, final >>
  /\ HeldFrame(s)

NextHeld ==
  \/ StartStep
  \/ Resume
  \/ TimerFire
  \/ ReturnResult
  \/ \E s \in StepIds : next(s, NoArg)
  \/ \E s \in StepIds, p \in {"deferred", "promise"} : HandlerReturn(s, p)
  \/ \E s \in StepIds, k \in LocalKeys : LocalsSet(s, k, "object")
  \/ \E s \in StepIds, field \in ReqFields : ReqAssign(s, field)
  \/ \E s \in StepIds : HeadersWrite(s)
  \/ \E s \in StepIds : CookiesPush(s)
  \/ \E s \in StepIds, k \in LocalKeys : NestedWrite(s, k)

SpecHeld == Init /\ [][NextHeld]_vars

\* ====================================================================
\* src/src/routes/composeRoutes.ts: validation, /compose/run and telemetry
\* ====================================================================
MAX_CHAIN_LENGTH == 50
MAX_STRING_LENGTH == 10000
MAX_PER_STEP_TIMEOUT_MS == 10000
TELEMETRY_RESET_MS == 86400000
DelayMs == 200

\* how many requests the server answers, and how many times the clock advances
MaxRequests == 3
MaxTicks == 2

\* JavaScript numbers: a finite integer, NaN or Infinity
Num(n) == [k |-> "num", n |-> n]
NaN == [k |-> "nan", n |-> 0]
Infinity == [k |-> "inf", n |-> 0]

\* values of a parsed JSON request body (undefined: the field is absent)
JUndefined == [t |-> "undefined"]
JNull == [t |-> "null"]
JBool(b) == [t |-> "boolean", b |-> b]
JNum(x) == [t |-> "number", num |-> x]
JStr(s) == [t |-> "string", s |-> s]
JArr(items) == [t |-> "array", items |-> items]
\* an object, within ("ok") or beyond ("over") the size limits checked for it
JObj(size) == [t |-> "object", size |-> size]

\* a string longer than MAX_STRING_LENGTH
LongString == "a...(10001 characters)"

StrLen(s) == IF s = LongString THEN MAX_STRING_LENGTH + 1 ELSE 1

\* Number(string): the StringToNumber conversion, on the strings used here
StringToNumber(s) ==
  CASE s = "" -> Num(0)
    [] s = "5" -> Num(5)
    [] s = "0" -> Num(0)
    [] s = " 7 " -> Num(7)
    [] s = "10001" -> Num(10001)
    [] s = "Infinity" -> Infinity
    [] OTHER -> NaN

\* String(element) of an array element, as Array.prototype.join does it
ElementToString(v) ==
  CASE v.t = "string" -> v.s
    [] v.t = "number" /\ v.num = Num(5) -> "5"
    [] v.t = "number" /\ v.num = Num(0) -> "0"
    [] v.t \in {"null", "undefined"} -> ""
    [] OTHER -> "[object Object]"

\* Number(value)
ToNumber(v) ==
  CASE v.t = "undefined" -> NaN
    [] v.t = "null" -> Num(0)
    [] v.t = "boolean" -> Num(IF v.b THEN 1 ELSE 0)
    [] v.t = "number" -> v.num
    [] v.t = "string" -> StringToNumber(v.s)
    [] v.t = "array" -> IF Len(v.items) = 0 THEN Num(0)
                        ELSE IF Len(v.items) = 1 THEN StringToNumber(ElementToString(v.items[1]))
                        ELSE NaN
    [] OTHER -> NaN

\* the condition of value ? a : b
ToBoolean(v) ==
  CASE v.t \in {"undefined", "null"} -> FALSE
    [] v.t = "boolean" -> v.b
    [] v.t = "number" -> v.num.k = "inf" \/ (v.num.k = "num" /\ v.num.n # 0)
    [] v.t = "string" -> v.s # ""
    [] OTHER -> TRUE

isPlainObject(v) == v.t = "object"

Valid == [valid |-> TRUE, error |-> ""]
Invalid(msg) == [valid |-> FALSE, error |-> msg]

VALID_MIDDLEWARE_KEYS ==
  { "logger", "delay", "setHeader", "setCookie", "authRequired", "attachUser",
    "respond", "throwError", "ssidCookie" }

\* the verdict on chain[i], or Valid
validateItem(item) ==
  IF ~isPlainObject(item) THEN Invalid("must be an object")
  ELSE IF item.key.t # "string" \/ item.key.s = "" THEN Invalid("key must be a non-empty string")
  ELSE IF item.key.s \notin VALID_MIDDLEWARE_KEYS THEN Invalid("key is not a known middleware")
  ELSE IF item.options.t # "undefined" /\ ~isPlainObject(item.options)
       THEN Invalid("options must be an object if provided")
  ELSE Valid

validateChain(input) ==
  IF input.t # "array" THEN Invalid("chain must be an array")
  ELSE IF Len(input.items) > MAX_CHAIN_LENGTH THEN Invalid("chain exceeds maximum length")
  ELSE IF \E i \in 1..Len(input.items) : ~validateItem(input.items[i]).valid
       THEN LET i == CHOOSE j \in 1..Len(input.items) :
                       /\ ~validateItem(input.items[j]).valid
                       /\ \A h \in 1..(j - 1) : validateItem(input.items[h]).valid
            IN validateItem(input.items[i])
  ELSE Valid

\* size "over" of headers, query or body stands for any of the limits checked
\* for that object (number of keys, length of a value, serialized size, depth)
validatePayload(payload) ==
  IF payload.t \in {"undefined", "null"} THEN Valid
  ELSE IF ~isPlainObject(payload) THEN Invalid("payload must be an object")
  ELSE IF payload.method.t \notin {"undefined", "string"} THEN Invalid("payload.method must be a string")
  ELSE IF payload.path.t \notin {"undefined", "string"} THEN Invalid("payload.path must be a string")
  ELSE IF payload.path.t = "string" /\ StrLen(payload.path.s) > MAX_STRING_LENGTH
       THEN Invalid("payload.path exceeds maximum length")
  ELSE IF payload.headers.t # "undefined" /\ ~isPlainObject(payload.headers)
       THEN Invalid("payload.headers must be an object")
  ELSE IF payload.headers.t = "object" /\ payload.headers.size = "over"
       THEN Invalid("payload.headers exceeds a limit")
  ELSE IF payload.query.t # "undefined" /\ ~isPlainObject(payload.query)
       THEN Invalid("payload.query must be an object")
  ELSE IF payload.query.t = "object" /\ payload.query.size = "over"
       THEN Invalid("payload.query exceeds maximum keys")
  ELSE IF payload.body.t \notin {"undefined", "null"} /\ ~isPlainObject(payload.body)
       THEN Invalid("payload.body must be an object")
  ELSE IF payload.body.t = "object" /\ payload.body.size = "over"
       THEN Invalid("payload.body exceeds a limit")
  ELSE Valid

\* a check that forgets the upper limit
validatePerStepTimeoutNoMax(value) ==
  IF value.t = "undefined" THEN Valid
  ELSE LET num == ToNumber(value)
       IN IF num.k # "num" \/ num.n <= 0 THEN Invalid("perStepTimeoutMs must be a positive number")
          ELSE Valid

validatePerStepTimeout(value) ==
  IF value.t = "undefined" THEN Valid
  ELSE LET num == ToNumber(value)
       IN IF num.k # "num" \/ num.n <= 0 THEN Invalid("perStepTimeoutMs must be a positive number")
          ELSE IF num.n > MAX_PER_STEP_TIMEOUT_MS THEN Invalid("perStepTimeoutMs exceeds maximum")
          ELSE Valid

\* perStepTimeoutMs ? Number(perStepTimeoutMs) : undefined
NotPassed == [k |-> "undefined", n |-> 0]

passedTimeout(value) == IF ToBoolean(value) THEN ToNumber(value) ELSE NotPassed

\* runChain's parameter default, and the delay a timer gets for a number
effectiveTimeout(passed) ==
  IF passed.k = "undefined" THEN DEFAULT_STEP_TIMEOUT_MS
  ELSE IF passed.k = "num" /\ passed.n >= 1 THEN passed.n
  ELSE 1

\* how composeTimed's runChain classifies a registry step run on the default
\* request: the handlers that call next at once are ok; delay calls next after
\* DelayMs; respond and authRequired write a body and are noticed by the poll;
\* throwError throws and ssidCookie calls next with an error
StepOutcome(key, T) ==
  CASE key \in {"logger", "setHeader", "setCookie", "attachUser"} -> "ok"
    [] key = "delay" -> IF T <= DelayMs THEN "timeout" ELSE "ok"
    [] key \in {"respond", "authRequired"} ->
         IF T <= CHECK_INTERVAL_MS THEN "timeout" ELSE "short-circuit"
    [] OTHER -> "error"

\* the timeline runChain returns for the built chain: it stops at the first
\* step that is not ok
RECURSIVE runSteps(_, _, _)
runSteps(items, i, T) ==
  IF i > Len(items) THEN <<>>
  ELSE LET st == StepOutcome(items[i].key.s, T)
           entry == [key |-> items[i].key.s, status |-> st]
       IN IF st = "ok" THEN << entry >> \o runSteps(items, i + 1, T) ELSE << entry >>

maybeResetTelemetry(tel, at) ==
  IF at - tel.lastResetAt < TELEMETRY_RESET_MS THEN tel ELSE NewTelemetry(at)

\* a test that takes every entry that ends the chain for a failure
FailedOrStopped(st) == st # "ok"

\* item.status === 'error' || item.status === 'timeout'
Failed(st) == st \in {"error", "timeout"}

\* for (const item of result.timeline): entry.count += 1, entry.errors += 1
RECURSIVE addEntries(_, _, _)
addEntries(m, tl, i) ==
  IF i > Len(tl) THEN m
  ELSE LET item == tl[i]
           entry == IF item.key \in DOMAIN m THEN m[item.key] ELSE [count |-> 0, errors |-> 0]
           next1 == [ count |-> entry.count + 1,
                      errors |-> entry.errors + IF Failed(item.status) THEN 1 ELSE 0 ]
       IN addEntries(SetKey(m, item.key, next1), tl, i + 1)

\* a recorder that counts the runs but not their steps
recordTelemetryRunsOnly(tel, tl, at) ==
  LET t0 == maybeResetTelemetry(tel, at)
  IN [t0 EXCEPT !.totalRuns = @ + 1]

\* durations are left out; the downscaling above Number.MAX_SAFE_INTEGER / 2
\* runs and the pruning above 200 keys are beyond MaxRequests and the registry
recordTelemetry(tel, tl, at) ==
  LET t0 == maybeResetTelemetry(tel, at)
      hadError == \E i \in 1..Len(tl) : Failed(tl[i].status)
  IN [ totalRuns |-> t0.totalRuns + 1,
       totalErrors |-> t0.totalErrors + IF hadError THEN 1 ELSE 0,
       middlewares |-> addEntries(t0.middlewares, tl, 1),
       lastResetAt |-> t0.lastResetAt ]

\* ------------------------------------------------------- request bodies
Item(k) == [t |-> "object", key |-> JStr(k), options |-> JUndefined]
ItemWith(key, options) == [t |-> "object", key |-> key, options |-> options]

GoodChains ==
  { JArr(<< Item("logger") >>),
    JArr(<< Item("logger"), Item("respond") >>),
    JArr(<< Item("throwError"), Item("logger") >>),
    JArr(<< Item("logger"), Item("delay"), Item("logger") >>) }

ChainInputs ==
  GoodChains \cup
  { JUndefined, JNull, JObj("ok"), JArr(<<>>),
    JArr(<< JStr("logger") >>),
    JArr(<< ItemWith(JStr(""), JUndefined) >>),
    JArr(<< ItemWith(JNum(Num(5)), JUndefined) >>),
    JArr(<< Item("logger"), Item("nope") >>),
    JArr(<< ItemWith(JStr("logger"), JStr("x")) >>),
    JArr(<< ItemWith(JStr("logger"), JNull) >>),
    JArr(<< ItemWith(JStr("respond"), JObj("ok")) >>),
    JArr([i \in 1..(MAX_CHAIN_LENGTH + 1) |-> Item("logger")]) }

Payload(method, path, headers, query, body) ==
  [ t |-> "object", method |-> method, path |-> path, headers |-> headers,
    query |-> query, body |-> body ]

PayloadInputs ==
  { JUndefined, JNull, JStr("x"), JArr(<<>>),
    Payload(JUndefined, JUndefined, JUndefined, JUndefined, JUndefined),
    Payload(JStr("POST"), JStr("/x"), JObj("ok"), JObj("ok"), JObj("ok")),
    Payload(JNum(Num(5)), JUndefined, JUndefined, JUndefined, JUndefined),
    Payload(JUndefined, JNum(Num(5)), JUndefined, JUndefined, JUndefined),
    Payload(JUndefined, JStr(LongString), JUndefined, JUndefined, JUndefined),
    Payload(JUndefined, JUndefined, JArr(<<>>), JUndefined, JUndefined),
    Payload(JUndefined, JUndefined, JObj("over"), JUndefined, JUndefined),
    Payload(JUndefined, JUndefined, JUndefined, JNull, JUndefined),
    Payload(JUndefined, JUndefined, JUndefined, JObj("over"), JUndefined),
    Payload(JUndefined, JUndefined, JUndefined, JUndefined, JNull),
    Payload(JUndefined, JUndefined, JUndefined, JUndefined, JArr(<<>>)),
    Payload(JUndefined, JUndefined, JUndefined, JUndefined, JObj("over")) }

TimeoutInputs ==
  { JUndefined, JNull, JBool(TRUE), JBool(FALSE),
    JNum(Num(0)), JNum(Num(-1)), JNum(Num(5)), JNum(Num(200)), JNum(Num(MAX_PER_STEP_TIMEOUT_MS)),
    JNum(Num(MAX_PER_STEP_TIMEOUT_MS + 1)), JNum(Infinity),
    JStr(""), JStr("0"), JStr("5"), JStr(" 7 "), JStr("abc"), JStr("10001"), JStr("Infinity"),
    JArr(<<>>), JArr(<< JNum(Num(5)) >>), JArr(<< JStr("10001") >>), JArr(<< JNull >>),
    JArr(<< JNum(Num(5)), JNum(Num(5)) >>), JObj("ok") }

Body(c, p, v) == [chain |-> c, payload |-> p, perStepTimeoutMs |-> v]

\* the chains sent to /compose/export
ExportChains == { JUndefined, JArr(<< Item("logger"), Item("respond") >>), JArr(<< Item("logger"), Item("nope") >>) }

\* the bodies sent to /compose/run: each field varied alone, timeouts with
\* chains that respond or wait, and bodies with several fields invalid
RunBodies ==
  { Body(c, JUndefined, JUndefined) : c \in ChainInputs }
  \cup { Body(JArr(<< Item("logger") >>), p, JUndefined) : p \in PayloadInputs }
  \cup { Body(JArr(<< Item("logger"), Item("respond") >>), JUndefined, v) : v \in TimeoutInputs }
  \cup { Body(JArr(<< Item("logger"), Item("delay"), Item("logger") >>), JUndefined, v) :
            v \in { JNum(Num(5)), JNum(Num(200)), JStr(" 7 "), JNum(Num(MAX_PER_STEP_TIMEOUT_MS)) } }
  \cup { Body(c, p, v) : c \in { JNull, JArr(<< Item("logger") >>) },
                         p \in { JStr("x"), JNull },
                         v \in { JNum(Num(0)), JNum(Num(5)) } }

\* -------------------------------------------------------- the handlers
engineVars ==
  << chain, pc, cur, activeStepToken, resState, heap, target, beforeStep, status,
     errorMsg, timedOut, resolved, nextCalled, onRespondCallback, timerArmed,
     timeline, final, hphase, budget, firstSignal, nextArg, dropped, raised,
     perStepTimeoutMs, ended, checkInterval, parked, req, syncBody, nextCalls, did >>

NoKeys == [k \in VALID_MIDDLEWARE_KEYS |-> 0]

CountOf(m, k) == IF k \in DOMAIN m THEN m[k].count ELSE 0

EntriesWith(tl, k) == Cardinality({ i \in 1..Len(tl) : tl[i].key = k })

\* sendError(res, 400, code, message)
sendError(route, body, code, message) ==
  [ route |-> route, n |-> http.n + 1, req |-> body, status |-> 400, code |-> code,
    message |-> message, ran |-> FALSE, passed |-> NotPassed, timeline |-> <<>> ]

\* a handler that looks at the timeout before the chain and the payload
firstFailureTimeoutFirst(chainValidation, payloadValidation, timeoutValidation) ==
  IF ~timeoutValidation.valid
  THEN [code |-> "invalid_timeout", message |-> timeoutValidation.error]
  ELSE IF ~chainValidation.valid
  THEN [code |-> "invalid_chain", message |-> chainValidation.error]
  ELSE IF ~payloadValidation.valid
  THEN [code |-> "invalid_payload", message |-> payloadValidation.error]
  ELSE [code |-> "", message |-> ""]

\* the three early returns of the handler, in its order
firstFailure(chainValidation, payloadValidation, timeoutValidation) ==
  IF ~chainValidation.valid
  THEN [code |-> "invalid_chain", message |-> chainValidation.error]
  ELSE IF ~payloadValidation.valid
  THEN [code |-> "invalid_payload", message |-> payloadValidation.error]
  ELSE IF ~timeoutValidation.valid
  THEN [code |-> "invalid_timeout", message |-> timeoutValidation.error]
  ELSE [code |-> "", message |-> ""]

\* router.post('/compose/run'); buildChain finds every validated key, so the
\* catch block is not entered
PostRun(body) ==
  /\ http.n < MaxRequests
  /\ LET chainIn == IF body.chain.t = "undefined" THEN JArr(<<>>) ELSE body.chain
         chainValidation == validateChain(chainIn)
         payloadValidation == validatePayload(body.payload)
         timeoutValidation == validatePerStepTimeout(body.perStepTimeoutMs)
         passed == passedTimeout(body.perStepTimeoutMs)
         result == runSteps(chainIn.items, 1, effectiveTimeout(passed))
         reset == now - telemetry.lastResetAt >= TELEMETRY_RESET_MS
         failure == firstFailure(chainValidation, payloadValidation, timeoutValidation)
     IN IF failure.code # ""
        THEN /\ http' = sendError("run", body, failure.code, failure.message)
             /\ UNCHANGED << telemetry, seen >>
        ELSE /\ telemetry' = recordTelemetry(telemetry, result, now)
             /\ http' = [ route |-> "run", n |-> http.n + 1, req |-> body, status |-> 200,
                          code |-> "", message |-> "", ran |-> TRUE, passed |-> passed,
                          timeline |-> result ]
             /\ seen' = IF ~seen.known THEN seen
                        ELSE [ seen EXCEPT
                                 !.runsSince = @ + 1,
                                 !.entriesSince = [k \in VALID_MIDDLEWARE_KEYS |->
                                                     @[k] + EntriesWith(result, k)],
                                 !.resetSince = @ \/ reset ]
  /\ UNCHANGED << now, jar, minted >>
  /\ UNCHANGED << engineVars, client >>

\* router.post('/compose/export')
PostExport(body) ==
  /\ http.n < MaxRequests
  /\ LET chainIn == IF body.chain.t = "undefined" THEN JArr(<<>>) ELSE body.chain
         validation == validateChain(chainIn)
     IN http' = IF ~validation.valid
                THEN sendError("export", body, "invalid_chain", validation.error)
                ELSE [ route |-> "export", n |-> http.n + 1, req |-> body, status |-> 200,
                       code |-> "", message |-> "", ran |-> FALSE, passed |-> NotPassed,
                       timeline |-> <<>> ]
  /\ UNCHANGED << telemetry, seen, now, jar, minted >>
  /\ UNCHANGED << engineVars, client >>

\* router.get('/telemetry'); the average duration is left out
GetTelemetry ==
  /\ http.n < MaxRequests
  /\ LET reset == now - telemetry.lastResetAt >= TELEMETRY_RESET_MS
         t1 == maybeResetTelemetry(telemetry, now)
     IN /\ telemetry' = t1
        /\ http' = [ route |-> "telemetry", n |-> http.n + 1, status |-> 200, code |-> "",
                     report |-> [ totalRuns |-> t1.totalRuns, totalErrors |-> t1.totalErrors,
                                  middlewares |-> t1.middlewares ],
                     prev |-> [seen EXCEPT !.resetSince = @ \/ reset] ]
        /\ seen' = [ known |-> TRUE, totalRuns |-> t1.totalRuns, middlewares |-> t1.middlewares,
                     runsSince |-> 0, entriesSince |-> NoKeys, resetSince |-> FALSE ]
  /\ UNCHANGED << now, jar, minted >>
  /\ UNCHANGED << engineVars, client >>

\* time passes: half of the telemetry reset period
Tick ==
  /\ now < MaxTicks * (TELEMETRY_RESET_MS \div 2)
  /\ now' = now + (TELEMETRY_RESET_MS \div 2)
  /\ UNCHANGED << http, telemetry, seen, jar, minted >>
  /\ UNCHANGED << engineVars, client >>

RouteInit ==
  /\ InitRun
  /\ chain = <<>>
  /\ perStepTimeoutMs = DEFAULT_STEP_TIMEOUT_MS
  /\ budget = 0
  /\ parked = NoRun

NextRoute ==
  \/ \E body \in RunBodies : PostRun(body)
  \/ \E c \in ExportChains : PostExport(Body(c, JUndefined, JUndefined))
  \/ GetTelemetry
  \/ Tick

SpecRoute == RouteInit /\ [][NextRoute]_vars

\* ====================================================================
\* src/unnamed/part_006 (server.ts): the CSRF cookie and its check
\* ====================================================================
\* how many tokens generateCsrfToken produces
MaxTokens == 3

\* a token no response of the server ever carried
WrongToken == 99

NoCookie == [kind |-> "none"]
Malformed == [kind |-> "malformed"]

\* crypto.createHmac('sha256', key).update(token).digest('hex')
Hmac(key, token) == [of |-> token, key |-> key]

\* signToken(token): `${token}.${hmac}`, under CSRF_SECRET
signToken(token) == [kind |-> "signed", token |-> token, sig |-> Hmac("CSRF_SECRET", token)]

\* a two-part cookie value made without the secret
Forged(token) == [kind |-> "signed", token |-> token, sig |-> Hmac("guess", token)]

\* a verification that takes the token of any two-part value
verifySignatureUnchecked(value) ==
  IF value.kind # "signed" THEN 0 ELSE value.token

\* verifySignature(value): the token, or undefined (0) when the value is
\* absent, has not two parts, or its signature is not the expected one
verifySignature(value) ==
  IF value.kind # "signed" THEN 0
  ELSE IF value.sig = Hmac("CSRF_SECRET", value.token) THEN value.token
  ELSE 0

\* generateCsrfToken(): 32 random bytes, a value not produced before
generateCsrfToken == minted + 1

isSafe(method) == method \in {"GET", "HEAD", "OPTIONS", "TRACE"}

Methods == {"GET", "OPTIONS", "POST", "DELETE"}

\* app.get('/api/csrf'): issueCsrfCookie and the token in the body
GetCsrf ==
  /\ minted < MaxTokens
  /\ LET token == generateCsrfToken
     IN /\ minted' = token
        /\ jar' = [cookie |-> signToken(token), token |-> token]
        /\ http' = [ route |-> "csrf", n |-> http.n, status |-> 200, code |-> "",
                     token |-> token, setCookie |-> signToken(token) ]
  /\ UNCHANGED << telemetry, now, seen >>
  /\ UNCHANGED << engineVars, client >>

\* app.use('/api', csrfProtection, ...): one request through createCsrfProtection
ApiRequest(method, cookie, header, bodyToken) ==
  /\ minted < MaxTokens
  /\ LET fromCookie == verifySignature(cookie)
         issue == fromCookie = 0
         verifiedToken == IF issue THEN generateCsrfToken ELSE fromCookie
         headerToken == IF header # 0 THEN header ELSE bodyToken
         passes == isSafe(method) \/ (headerToken # 0 /\ headerToken = verifiedToken)
     IN /\ minted' = IF issue THEN generateCsrfToken ELSE minted
        /\ jar' = IF issue THEN [jar EXCEPT !.cookie = signToken(generateCsrfToken)] ELSE jar
        /\ http' = [ route |-> "api", n |-> http.n, method |-> method, cookie |-> cookie,
                     header |-> header, bodyToken |-> bodyToken,
                     reached |-> passes,
                     status |-> IF passes THEN 0 ELSE 403,
                     code |-> IF passes THEN "" ELSE "csrf_invalid",
                     setCookie |-> IF issue THEN signToken(generateCsrfToken) ELSE NoCookie ]
  /\ UNCHANGED << telemetry, now, seen >>
  /\ UNCHANGED << engineVars, client >>

\* the cookies and tokens a client can put into a request: what it was given,
\* nothing, and values made up without the secret
CookieChoices == { NoCookie, Malformed, jar.cookie, Forged(jar.token), Forged(WrongToken) }
TokenChoices == { 0, jar.token, WrongToken }

NextCsrf ==
  \/ GetCsrf
  \/ \E method \in Methods, cookie \in CookieChoices, header \in TokenChoices,
        bodyToken \in { 0, jar.token } :
        ApiRequest(method, cookie, header, bodyToken)

SpecCsrf == RouteInit /\ [][NextCsrf]_vars

\* ====================================================================
\* The page (public client script): apiCall, run, exportCode, busy state
\* ====================================================================
\* const { retries = 2, retryDelayMs = 300 } = retryConfig; no caller passes a retryConfig
Retries == 2

\* how a fetch settles: a 2xx response, a 4xx response, a 5xx response, or a
\* rejection (network failure)
Outcomes == { "ok", "client", "server", "network" }

\* pendingActions += 1
beginBusy(p) == p + 1

\* pendingActions = Math.max(0, pendingActions - 1)
endBusy(p) == IF p - 1 > 0 THEN p - 1 ELSE 0

\* updateBusyState: both buttons are disabled while pendingActions > 0
disabled == client.pendingActions > 0

\* const res = await fetch(url, options)
fetch(a) == [a EXCEPT !.pc = "fetch", !.fetches = @ + 1]

\* catch (err): sleep and go on while attempts are left, else rethrow
catchBlock(a) ==
  IF a.attempt < Retries
  THEN [a EXCEPT !.pc = "sleep", !.slept = @ + 1]
  ELSE [a EXCEPT !.pc = "done", !.result = "error"]

\* the body of apiCall's try block once the fetch has settled; the Error
\* thrown for a response that is not ok is thrown inside the try block
apiCall(a, outcome) ==
  CASE outcome = "ok" -> [a EXCEPT !.pc = "done", !.result = "ok"]
    [] outcome = "server" ->
         IF a.attempt < Retries
         THEN [a EXCEPT !.pc = "sleep", !.slept = @ + 1]
         ELSE catchBlock(a)
    [] outcome = "client" -> catchBlock([a EXCEPT !.refused = TRUE])
    [] outcome = "network" -> catchBlock(a)

ClientFrame ==
  /\ UNCHANGED << http, telemetry, now, seen, jar, minted >>
  /\ UNCHANGED engineVars

\* the first action slot not in use
FreeSlot(a) ==
  /\ client.act[a].pc = "idle"
  /\ \A b \in 1..(a - 1) : client.act[b].pc # "idle"

\* a click reaches the listener only while the button is enabled; the keydown
\* listener calls the function whatever the buttons' state
Triggers(via) == via = "key" \/ ~disabled

\* run(): with a selection; the form fields parse or one of them throws
run(via, formOk) ==
  /\ Triggers(via)
  /\ \E a \in 1..MaxActions :
       /\ FreeSlot(a)
       /\ client' =
            IF formOk
            THEN [ pendingActions |-> beginBusy(client.pendingActions),
                   act |-> [client.act EXCEPT ![a] =
                              fetch([IdleAction EXCEPT !.kind = "run", !.via = via])] ]
            ELSE [ pendingActions |-> endBusy(beginBusy(client.pendingActions)),
                   act |-> [client.act EXCEPT ![a] =
                              [IdleAction EXCEPT !.kind = "run", !.via = via,
                                                 !.pc = "done", !.result = "error"]] ]
  /\ ClientFrame

\* exportCode(): with a selection
exportCode(via) ==
  /\ Triggers(via)
  /\ \E a \in 1..MaxActions :
       /\ FreeSlot(a)
       /\ client' = [ pendingActions |-> beginBusy(client.pendingActions),
                      act |-> [client.act EXCEPT ![a] =
                                 fetch([IdleAction EXCEPT !.kind = "export", !.via = via])] ]
  /\ ClientFrame

\* the fetch of action a settles; when apiCall returns or throws, run or
\* exportCode reaches its finally block
FetchSettles(a, outcome) ==
  /\ client.act[a].pc = "fetch"
  /\ LET after == apiCall(client.act[a], outcome)
     IN client' = [ pendingActions |-> IF after.pc = "done"
                                       THEN endBusy(client.pendingActions)
                                       ELSE client.pendingActions,
                    act |-> [client.act EXCEPT ![a] = after] ]
  /\ ClientFrame

\* await sleep(...) ends: continue with the next attempt
SleepEnds(a) ==
  /\ client.act[a].pc = "sleep"
  /\ client' = [client EXCEPT !.act[a] = fetch([@ EXCEPT !.attempt = @ + 1])]
  /\ ClientFrame

NextClient ==
  \/ \E via \in {"click", "key"}, formOk \in BOOLEAN : run(via, formOk)
  \/ \E via \in {"click", "key"} : exportCode(via)
  \/ \E a \in 1..MaxActions, outcome \in Outcomes : FetchSettles(a, outcome)
  \/ \E a \in 1..MaxActions : SleepEnds(a)

SpecClient == RouteInit /\ [][NextClient]_vars

\* ====================================================================
\* Properties
\* ====================================================================
NoLateDatum(r) ==
  /\ ~r.statusCode.late
  /\ \A h \in DOMAIN r.headers : ~r.headers[h].late
  /\ \A i \in 1..Len(r.cookies) : ~r.cookies[i].late
  /\ ~r.responseBody.late

FinalOf(r) ==
  [ returned |-> TRUE, statusCode |-> r.statusCode, headers |-> r.headers,
    cookies |-> r.cookies, locals |-> r.locals, responded |-> r.responded,
    body |-> r.responseBody ]

\* C1: a mutation issued through a scoped view after its step's entry was
\* recorded (the step completed or timed out) is in no field of the shared
\* response, in no locals object any step's view reads, and not in the
\* returned final response, which stays what it was when runChain returned.
C1_LateMutationsIgnored ==
  /\ NoLateDatum(resState)
  /\ \A id \in 1..Len(heap) : \A k \in DOMAIN heap[id] : ~heap[id][k].late
  /\ final.returned => final = FinalOf(resState)

\* C1 witness: the run of a two-step chain has returned after the guard
\* dropped a write of a deactivated step.
C1_Witness ==
  /\ pc = "returned"
  /\ Len(timeline) = 2
  /\ dropped

\* C2: a step resolved by its timer has status timeout, is the last entry,
\* and the shared response and the returned final response hold the values
\* the snapshot taken before the step holds; its locals are those previewed
\* at the end of the previous step.
C2_TimeoutRollsBack ==
  \A s \in 1..Len(timeline) :
    firstSignal[s] = "timer" =>
      /\ timeline[s].status = "timeout"
      /\ s = Len(timeline)
      /\ s = cur
      /\ pc \in {"exit", "returned"}
      /\ beforeStep.taken
      /\ resState.statusCode = beforeStep.statusCode
      /\ resState.headers = beforeStep.headers
      /\ resState.cookies = beforeStep.cookies
      /\ resState.responded = beforeStep.responded
      /\ resState.responded = FALSE
      /\ resState.responseBody = beforeStep.responseBody
      /\ shallowPreview(heap[resState.locals]) =
           (IF s = 1 THEN shallowPreview(EmptyObj) ELSE timeline[s - 1].localsPreview)
      /\ timeline[s].localsPreview = shallowPreview(heap[resState.locals])
      /\ final.returned => final = FinalOf(resState)

\* C2 witness: the second step timed out after writing a header and a local,
\* and the run returned.
C2_Witness ==
  /\ pc = "returned"
  /\ cur = 2
  /\ firstSignal[2] = "timer"
  /\ budget = 0
  /\ ~dropped
  /\ heap[target[2]] # heap[final.locals]

\* C3 (as claimed): a step resolved by a body write whose continuation was
\* never called has status short-circuit and is the last step started.
C3_BodyWriteShortCircuits ==
  \A s \in 1..Len(timeline) :
    (firstSignal[s] = "body" /\ ~nextCalled[s]) =>
      /\ timeline[s].status = "short-circuit"
      /\ cur = s

\* C4 (as claimed): a step whose continuation was called with an error value
\* has status error, the error's message as its entry's error, and is the
\* last step started.
C4_ErrorMessageVerbatim ==
  \A s \in 1..Len(timeline) :
    nextArg[s] \in ErrorValues =>
      /\ timeline[s].status = "error"
      /\ timeline[s].error = nextArg[s].message
      /\ cur = s

\* C5 (as claimed): runChain never rejects, whatever the handlers do.
C5_NeverRejects == pc # "rejected"

\* C6: the active token changes only from null to a step's token or from a
\* step's token to null, and whenever a step's entry is recorded (whichever
\* way the step resolved) the active token is null.
C6_TokenNoOverlap ==
  [][ /\ (activeStepToken' # activeStepToken /\ activeStepToken' # NoToken)
          => activeStepToken = NoToken
      /\ Len(timeline') > Len(timeline) => activeStepToken' = NoToken ]_vars

\* C6 witness: the second step's token is the active one, the first step
\* having resolved and been recorded.
C6_Witness ==
  /\ cur = 2
  /\ activeStepToken = 2
  /\ Len(timeline) = 1
  /\ resolved[1]

\* C7 (as claimed): the returned timeline has between 1 and chain-length entries.
C7_TimelineLengthOriginal ==
  pc = "returned" => (1 <= Len(timeline) /\ Len(timeline) <= Len(chain))

\* C7 (amended): the returned timeline has at most chain-length entries, and
\* at least 1 unless the chain is empty, in which case it is empty.
C7_TimelineLength ==
  pc = "returned" =>
    /\ Len(timeline) <= Len(chain)
    /\ (Len(chain) >= 1 => Len(timeline) >= 1)
    /\ (Len(chain) = 0 => Len(timeline) = 0)

\* C7 witness: runs returned with a one-entry timeline of a two-step chain.
C7_Witness ==
  /\ pc = "returned"
  /\ Len(chain) = 2
  /\ Len(timeline) = 1

\* C8: the timeline is never longer than the chain and every entry before
\* the last is ok, so a full-length timeline has all but its last entry ok.
C8_StopsAtFirstNonOk ==
  /\ Len(timeline) <= Len(chain)
  /\ \A i \in 1..(Len(timeline) - 1) : timeline[i].status = "ok"
  /\ (timeline # <<>> /\ timeline[Len(timeline)].status # "ok") => pc \in {"exit", "returned"}

\* C8 witness: a full-length timeline whose last entry is not ok.
C8_Witness ==
  /\ Len(chain) = 2
  /\ Len(timeline) = 2
  /\ timeline[2].status # "ok"

\* C9 (as claimed): a run ends only with the chain exhausted or on a last
\* entry that is short-circuit, error or timeout, never after an ok entry
\* with steps left.
C9_NeverStopsEarlyOnOk ==
  pc \in {"returned", "rejected"} =>
    \/ Len(timeline) = Len(chain)
    \/ (timeline # <<>> /\ timeline[Len(timeline)].status # "ok")

\* C10: entry i carries the key and name of chain step i, there is one entry
\* per resolved step, and a step's handler has been invoked only when every
\* earlier step is resolved and recorded.
C10_EntriesInChainOrder ==
  /\ \A i \in 1..Len(timeline) :
       /\ i <= Len(chain)
       /\ timeline[i].key = chain[i].key
       /\ timeline[i].name = chain[i].name
  /\ Len(timeline) \in {cur - 1, cur}
  /\ \A t \in 1..cur : hphase[t] # "idle" =>
       \A s \in 1..(t - 1) : resolved[s] /\ Late(s)

\* C10 witness: both steps of a two-step chain have their entries.
C10_Witness ==
  /\ Len(timeline) = 2
  /\ timeline[1].key # timeline[2].key
  /\ hphase[2] # "idle"

\* C11 (as claimed): the signal that resolved a step first determines the
\* recorded status: a first done() or body write gives ok or short-circuit
\* with no error message, a first done(err), throw or rejection gives error,
\* the timer gives timeout; nothing signalled after the first changes it.
C11_FirstSignalWins ==
  \A s \in 1..Len(timeline) :
    /\ firstSignal[s] \in {"next", "body"} =>
         (timeline[s].status \in {"ok", "short-circuit"} /\ timeline[s].error = NoMsg)
    /\ firstSignal[s] \in {"nextErr", "throw", "reject"} => timeline[s].status = "error"
    /\ firstSignal[s] = "timer" => timeline[s].status = "timeout"

\* C12 (as claimed): a step whose handler threw during its synchronous
\* invocation is resolved at once with its timer cleared (runChain does not
\* wait for the timeout), its entry has status error and the thrown error's
\* message, and it is the last step started.
C12_SyncThrowIsError ==
  \A s \in 1..cur :
    raised[s].by = "throw" =>
      /\ resolved[s]
      /\ ~timerArmed[s]
      /\ firstSignal[s] # "timer"
      /\ pc # "await"
      /\ s = cur
      /\ s <= Len(timeline) =>
           /\ timeline[s].status = "error"
           /\ timeline[s].error = raised[s].value.message

\* C13 (as claimed): a step that a body write resolved and whose
\* continuation was also called, without an error, before its entry was
\* recorded has status short-circuit and is the last step started.
C13_BodyAndNextShortCircuits ==
  \A s \in 1..Len(timeline) :
    (firstSignal[s] = "body" /\ nextArg[s] = NoArg) =>
      /\ timeline[s].status = "short-circuit"
      /\ cur = s

C15_RejectionIsError ==
  \A s \in 1..Len(timeline) :
    ( /\ raised[s].by = "reject"
      /\ ~raised[s].late
      /\ nextArg[s] = NeverCalled
      /\ ~resState.responded ) =>
      /\ timeline[s].status = "error"
      /\ timeline[s].error = raised[s].value.message
      /\ cur = s

\* C16: a run of the empty chain returns an empty timeline and the default
\* response: status 200, no header, no cookie, no local, responded false and
\* no body.
C16_EmptyChainDefault ==
  (pc = "returned" /\ chain = <<>>) =>
    /\ timeline = <<>>
    /\ final.returned
    /\ final.statusCode.v = "200"
    /\ DOMAIN final.headers = {}
    /\ final.cookies = <<>>
    /\ DOMAIN heap[final.locals] = {}
    /\ final.responded = FALSE
    /\ final.body.v = "undefined"

\* C16 witness: the run of the empty chain has returned.
C16_Witness ==
  /\ pc = "returned"
  /\ chain = <<>>
  /\ cur = 0

\* C17: a run of k registry steps that only call next(), followed by respond
\* with status 201 and a JSON body, returns a timeline of k+1 entries, the
\* first k ok and the last short-circuit, and a final response with status
\* code 201, that body and responded true.
C17_NextOnlyThenRespond ==
  pc = "returned" =>
    /\ Len(timeline) = Len(chain)
    /\ \A i \in 1..(Len(chain) - 1) : timeline[i].status = "ok"
    /\ timeline[Len(chain)].status = "short-circuit"
    /\ final.statusCode.v = "201"
    /\ final.body.v = "body"
    /\ final.responded

\* C17 witness: the run of two such steps followed by respond has returned.
C17_Witness ==
  /\ pc = "returned"
  /\ Len(chain) = 3
  /\ chain[3].key = "respond"
  /\ nextArg[1] = NoArg
  /\ nextArg[2] = NoArg
  /\ nextArg[3] = NeverCalled

\* a run's own bookkeeping is intact: while its step is invoked or awaited
\* that step's token is its active token, an awaited step is unresolved with
\* its callback registered and its timer pending, and between steps and after
\* the return no token is active
RunIntact(r) ==
  /\ r.pc \in {"sync", "await", "resolved"} => r.activeStepToken = r.cur
  /\ r.pc = "await" =>
       /\ ~r.resolved[r.cur]
       /\ r.onRespondCallback = r.cur
       /\ r.timerArmed[r.cur]
  /\ r.pc \in {"loop", "exit", "returned"} => r.activeStepToken = NoToken
  /\ r.final.returned => r.final = FinalOf(r.resState)

\* C18: with two runs in progress and their steps interleaved, every step of
\* the run in focus leaves the whole state of the other run as it was (it
\* neither mutates its response or timeline, nor resolves or deactivates its
\* step), a switch hands each run back exactly the state it was left in, and
\* each run's bookkeeping stays intact; so each run proceeds as it does alone.
C18_RunsDoNotInterfere ==
  /\ [](RunIntact(ThisRun) /\ RunIntact(parked))
  /\ [][ \/ parked' = parked
         \/ (parked' = ThisRun /\ ThisRun' = parked) ]_vars

\* C18 witness: a body write has just resolved the step of the run in focus
\* while the other run, which has recorded one step, awaits its second step.
C18_Witness ==
  /\ pc = "resolved"
  /\ firstSignal[cur] = "body"
  /\ parked.live
  /\ parked.pc = "await"
  /\ parked.cur = 2
  /\ parked.activeStepToken = 2

\* C20: a call of step s's continuation after its first call changes neither
\* a status nor an error message, resolves nothing and leaves the response,
\* the timeline and the active token alone; and no call of s's continuation,
\* first or later, changes another step's status, error message, resolved
\* flag, timer or continuation state, or resolves the current step when s is
\* not the current step.
C20_ContinuationSingleUse ==
  [][ \A s \in StepIds :
        nextCalls'[s] > nextCalls[s] =>
          /\ nextCalls[s] >= 1 =>
               UNCHANGED << status, errorMsg, resolved, nextCalled, timerArmed,
                            onRespondCallback, pc, resState, heap, timeline,
                            activeStepToken, firstSignal, final >>
          /\ \A t \in StepIds \ {s} :
               /\ status'[t] = status[t]
               /\ errorMsg'[t] = errorMsg[t]
               /\ resolved'[t] = resolved[t]
               /\ nextCalled'[t] = nextCalled[t]
               /\ timerArmed'[t] = timerArmed[t]
          /\ s # cur => (pc' = pc /\ onRespondCallback' = onRespondCallback) ]_vars

\* C20 witness: the first step's continuation was called twice, first without
\* an error, and its entry is recorded ok.
C20_Witness ==
  /\ nextCalls[1] = 2
  /\ nextArg[1] = NoArg
  /\ Len(timeline) >= 1
  /\ timeline[1].status = "ok"

\* C21: the completion callback of the synthetic response reaches the step
\* exactly once, at the first body write (json or send) that moves responded
\* from false to true: a body write delivers the callback to a step exactly
\* when that write turns responded from false to true.
C21_CallbackAtFirstTransition ==
  [][ \A s \in StepIds :
        (firstSignal[s] # "body" /\ firstSignal'[s] = "body")
           <=> (s = activeStepToken /\ ~resState.responded /\ resState'.responded
                  /\ resState'.responseBody # resState.responseBody) ]_vars

\* C22: the timeline is append-only: no step of the run, and no late write,
\* continuation call or rejection of a handler, shortens it or changes an
\* entry already recorded; it only grows, by one entry at its end.
C22_TimelineAppendOnly ==
  [][ /\ Len(timeline') \in { Len(timeline), Len(timeline) + 1 }
      /\ \A i \in 1..Len(timeline) : timeline'[i] = timeline[i] ]_vars

\* a second entry has been recorded after the first, and a write of step 1
\* arrived after its entry was recorded
C22_Witness ==
  /\ Len(timeline) = 2
  /\ dropped
  /\ timeline[1].status = "ok"

\* C23: the synthetic request is immutable once constructed for a run: when
\* the handler of a later step is invoked, the method, path, headers, query
\* and body it observes are those the request was constructed with, whatever
\* the handlers of the earlier steps did.
C23_RequestImmutable ==
  (cur >= 2 /\ pc = "sync") => req = createRequest

\* C24: a read through a step's scoped view gives the current value of the
\* field on the shared response, whether the step is active or deactivated:
\* the locals object that the view of every started step reads has the
\* contents of the shared response's current locals, also after the locals
\* were replaced by an assignment or by a timeout rollback.
C24_ReadsPassThrough ==
  \A s \in 1..cur : target[s] # 0 => heap[target[s]] = heap[resState.locals]

\* C29: step boundaries are a hard mutation barrier: nothing written by a
\* handler after its step's entry was recorded, through the header map or the
\* cookie list its view's read accessors returned or into a nested object read
\* from locals, is in the shared response or in the returned final response.
C29_HardMutationBarrier ==
  /\ \A h \in DOMAIN resState.headers : ~resState.headers[h].late
  /\ \A i \in 1..Len(resState.cookies) : ~resState.cookies[i].late
  /\ \A k \in DOMAIN heap[resState.locals] : ~heap[resState.locals][k].late
  /\ final.returned =>
       /\ \A h \in DOMAIN final.headers : ~final.headers[h].late
       /\ \A i \in 1..Len(final.cookies) : ~final.cookies[i].late

\* C30: in composeTimed.ts, for every accepted perStepTimeoutMs, also one
\* below the check interval, a recorded step whose handler wrote a response
\* body during its synchronous invocation, did not call its continuation and
\* raised nothing is classified short-circuit, never timeout.
C30_SyncBodyIsShortCircuit ==
  \A s \in 1..Len(timeline) :
    (syncBody[s] /\ nextArg[s] = NeverCalled /\ raised[s] = NotRaised)
       => timeline[s].status = "short-circuit"

\* what the route's documentation calls an invalid chain, payload and timeout
BadChain(c) ==
  /\ c.t # "undefined"
  /\ \/ c.t # "array"
     \/ Len(c.items) > 50
     \/ \E i \in 1..Len(c.items) :
          \/ c.items[i].t # "object"
          \/ c.items[i].key.t # "string"
          \/ c.items[i].key.s \notin VALID_MIDDLEWARE_KEYS
          \/ c.items[i].options.t \notin {"undefined", "object"}

BadPayload(p) ==
  /\ p.t \notin {"undefined", "null"}
  /\ \/ p.t # "object"
     \/ p.method.t \notin {"undefined", "string"}
     \/ p.path.t \notin {"undefined", "string"}
     \/ p.path = JStr(LongString)
     \/ p.headers.t \notin {"undefined", "object"} \/ p.headers = JObj("over")
     \/ p.query.t \notin {"undefined", "object"} \/ p.query = JObj("over")
     \/ p.body.t \notin {"undefined", "null", "object"} \/ p.body = JObj("over")

InRange(x) == x.k = "num" /\ x.n > 0 /\ x.n <= 10000

BadTimeout(v) == v.t # "undefined" /\ ~InRange(ToNumber(v))

\* C25: POST /compose/run checks the chain, then the payload, then the
\* timeout: the first of them that is invalid gives status 400 with the code
\* invalid_chain, invalid_payload or invalid_timeout, and then runChain is not
\* called and no step is executed; when all three are valid the answer is 200
\* with the timeline, also when a step of it ended in error or timeout.
C25_ValidationOrder ==
  http.route = "run" =>
    LET b == http.req
        rejected(code) == http.status = 400 /\ http.code = code /\ ~http.ran /\ http.timeline = <<>>
    IN /\ BadChain(b.chain) => rejected("invalid_chain")
       /\ (~BadChain(b.chain) /\ BadPayload(b.payload)) => rejected("invalid_payload")
       /\ (~BadChain(b.chain) /\ ~BadPayload(b.payload) /\ BadTimeout(b.perStepTimeoutMs))
             => rejected("invalid_timeout")
       /\ (~BadChain(b.chain) /\ ~BadPayload(b.payload) /\ ~BadTimeout(b.perStepTimeoutMs))
             => /\ http.status = 200
                /\ http.ran
                /\ b.chain.t = "array" => Len(http.timeline) >= IF b.chain.items = <<>> THEN 0 ELSE 1

\* C25 witness: a body whose payload and timeout are both invalid was answered
\* invalid_payload, and (in another request) a run with a failed step was
\* answered 200; the state shown is the first.
C25_Witness ==
  /\ http.route = "run"
  /\ http.code = "invalid_payload"
  /\ http.req.payload = JStr("x")
  /\ http.req.perStepTimeoutMs = JNum(Num(0))

\* C26: whenever /compose/run calls runChain, the perStepTimeoutMs it passes
\* is undefined or a finite number greater than 0 and at most 10000, whatever
\* JSON value the request carried in that field.
C26_PassedTimeoutInRange ==
  (http.route = "run" /\ http.ran) =>
     (http.passed = NotPassed \/ InRange(http.passed))

\* C26 witness: a run was started for a request whose perStepTimeoutMs was the
\* array [5], and the number 5 was passed.
C26_Witness ==
  /\ http.route = "run"
  /\ http.ran
  /\ http.req.perStepTimeoutMs = JArr(<< JNum(Num(5)) >>)
  /\ http.passed = Num(5)

\* a telemetry report agrees with the report before it and the runs completed
\* in between
ReportAddsUp ==
  /\ http.report.totalRuns = http.prev.totalRuns + http.prev.runsSince
  /\ \A k \in VALID_MIDDLEWARE_KEYS :
       CountOf(http.report.middlewares, k)
          = CountOf(http.prev.middlewares, k) + http.prev.entriesSince[k]

\* a request that was rejected, or an export, leaves telemetry as it was
RejectedLeavesTelemetry ==
  (http'.n # http.n /\ http'.route \in {"run", "export"} /\ ~http'.ran)
     => telemetry' = telemetry

\* C27 (as claimed): every telemetry report shows totalRuns equal to the
\* previous report's plus one per run completed in between, and each key's
\* count increased by the number of timeline entries with that key.
C27_TelemetryReflectsRuns ==
  (http.route = "telemetry" /\ http.prev.known) => ReportAddsUp

\* C27 (amended): the same for reports between which the 24 hour reset of
\* the telemetry object did not happen; and a request rejected by validation
\* and an export leave telemetry unchanged.
C27_TelemetryReflectsRunsUntilReset ==
  /\ []((http.route = "telemetry" /\ http.prev.known /\ ~http.prev.resetSince) => ReportAddsUp)
  /\ [][RejectedLeavesTelemetry]_vars

\* C27 witness: a report that follows an earlier report and one completed run
\* of two steps, with no reset in between.
C27_Witness ==
  /\ http.route = "telemetry"
  /\ http.prev.known
  /\ ~http.prev.resetSince
  /\ http.prev.runsSince = 1
  /\ http.prev.entriesSince["logger"] = 1
  /\ http.prev.entriesSince["respond"] = 1
  /\ http.report.totalRuns = 1

\* C28: a request with a state-changing method reaches the protected route
\* only if its CSRF cookie carries a valid signature and its header or body
\* token equals the cookie's token; the token given by GET /api/csrf, sent in
\* the header with the cookie of that response, is accepted; every other
\* state-changing request is answered 403 csrf_invalid.
C28_CsrfProtocol ==
  (http.route = "api" /\ ~isSafe(http.method)) =>
    LET c == http.cookie
        genuine == c.kind = "signed" /\ c.token # 0 /\ c.sig = Hmac("CSRF_SECRET", c.token)
        matches == genuine /\ (http.header = c.token \/ http.bodyToken = c.token)
    IN /\ http.reached => matches
       /\ ~matches => (~http.reached /\ http.status = 403 /\ http.code = "csrf_invalid")
       /\ (genuine /\ http.header = c.token) => http.reached

\* C28 witness: a POST carrying the cookie and, in its header, the token of an
\* earlier GET /api/csrf reached the protected route.
C28_Witness ==
  /\ http.route = "api"
  /\ http.method = "POST"
  /\ http.cookie = signToken(1)
  /\ http.header = 1
  /\ jar.token = 1
  /\ http.reached

\* C31: fulfilment of the promise a handler returned is not a completion
\* signal: a recorded step whose handler's promise fulfilled before the entry
\* was recorded, whose continuation was not called and whose handler wrote no
\* body, was resolved by its timer and is classified timeout.
C31_FulfilmentIsNoSignal ==
  \A s \in 1..Len(timeline) :
    ("fulfil" \in did[s] /\ "body" \notin did[s] /\ nextArg[s] = NeverCalled) =>
      /\ firstSignal[s] = "timer"
      /\ timeline[s].status = "timeout"

\* C32: no signal of a step whose entry is recorded reaches a later step:
\* whenever a step's resolved flag, status or error message changes, the
\* change comes with no continuation call, rejection, settlement or timer of
\* an earlier recorded step, and with no body written by a recorded step.
C32_LateSignalsStayLocal ==
  [][ \A t \in StepIds :
        (resolved'[t] # resolved[t] \/ status'[t] # status[t] \/ errorMsg'[t] # errorMsg[t]) =>
          /\ \A s \in 1..Len(timeline) :
               s < t => /\ nextCalls'[s] = nextCalls[s]
                        /\ raised'[s] = raised[s]
                        /\ hphase'[s] = hphase[s]
                        /\ timerArmed'[s] = timerArmed[s]
          /\ ~resState'.responseBody.late ]_vars

\* the second step is awaited, unresolved, after the guard dropped a late
\* write of the first step and the first step's promise rejected late
C32_Witness ==
  /\ cur = 2
  /\ pc = "await"
  /\ ~resolved[2]
  /\ firstSignal[2] = "none"
  /\ dropped
  /\ raised[1].late

\* C33: the rollback to the pre-step snapshot is performed exactly for a step
\* recorded as timeout: recording a timeout entry leaves the shared response
\* equal to the snapshot, recording an ok, short-circuit or error entry leaves
\* the shared response and the locals objects as the step left them, and the
\* result returned afterwards holds that response.
C33_RollbackOnlyOnTimeout ==
  [][ /\ Len(timeline') > Len(timeline) =>
           IF timeline'[Len(timeline')].status = "timeout"
           THEN resState' = restoreResponse(resState, beforeStep)
           ELSE resState' = resState /\ heap' = heap
      /\ (~final.returned /\ final'.returned) =>
           (final' = FinalOf(resState) /\ resState' = resState /\ heap' = heap) ]_vars

\* the only step set a header and called its continuation with an error; it
\* is recorded error and the header is in the returned final response
C33_Witness ==
  /\ pc = "returned"
  /\ Len(timeline) = 1
  /\ timeline[1].status = "error"
  /\ nextArg[1] \in ErrorValues
  /\ "x-demo" \in DOMAIN final.headers

\* C34 (as claimed): when a step's handler is invoked the responded flag of
\* the shared response is false, and a step is recorded short-circuit only
\* when its handler wrote a body (json or send) while it was the active step.
C34_ShortCircuitByOwnBodyWrite ==
  [][ /\ cur' # cur => ~resState'.responded
      /\ ( /\ Len(timeline') > Len(timeline)
           /\ timeline'[Len(timeline')].status = "short-circuit" )
         => "body" \in did[cur] ]_vars

\* C34 (amended): when a step's handler is invoked the responded flag is
\* false, and a step is recorded short-circuit only when the flag, false in
\* its pre-step snapshot, was set while it was the active step by its own
\* handler, through a body write or through an assignment to responded.
C34_ShortCircuitByOwnFlag ==
  [][ /\ cur' # cur => ~resState'.responded
      /\ ( /\ Len(timeline') > Len(timeline)
           /\ timeline'[Len(timeline')].status = "short-circuit" )
         => /\ beforeStep.taken
            /\ ~beforeStep.responded
            /\ resState.responded
            /\ did[cur] \cap {"body", "flag"} # {} ]_vars

\* the first step of a two-step chain is recorded short-circuit, its handler
\* having assigned responded and called its continuation without writing a
\* body, and the run returned without invoking the second step
C34_Witness ==
  /\ pc = "returned"
  /\ Len(chain) = 2
  /\ cur = 1
  /\ timeline[1].status = "short-circuit"
  /\ did[1] = {"flag"}
  /\ nextArg[1] = NoArg

\* C35 (as claimed): in every returned result, a last entry that is
\* short-circuit comes with final.responded true, and a timeline whose entries
\* are all ok, or whose last entry is timeout, comes with final.responded
\* false and no final.body.
C35_FinalMatchesTimeline ==
  pc = "returned" =>
    LET n == Len(timeline)
    IN /\ (n > 0 /\ timeline[n].status = "short-circuit") => final.responded
       /\ ( \/ \A i \in 1..n : timeline[i].status = "ok"
            \/ (n > 0 /\ timeline[n].status = "timeout") )
          => (~final.responded /\ final.body.v = "undefined")

\* C36 (as claimed): runChain always terminates: no more steps are started
\* than the chain has, a step that is awaited has its timer pending, so it
\* resolves when the timer expires at the latest, and as long as runChain has
\* not returned a result either a handler is being invoked (and returns
\* control) or runChain itself can take its next step.
C36_AlwaysTerminates ==
  /\ cur <= Len(chain)
  /\ pc = "await" => (timerArmed[cur] /\ ~resolved[cur])
  /\ pc # "returned" =>
       \/ pc = "sync"
       \/ ENABLED (StartStep \/ Resume \/ TimerFire \/ ReturnResult)

ErrorsOf(m, k) == IF k \in DOMAIN m THEN m[k].errors ELSE 0

FailingEntries(tl, k) ==
  Cardinality({ i \in 1..Len(tl) : tl[i].key = k /\ tl[i].status \in {"error", "timeout"} })

\* the run of an accepted /compose/run request adds one to totalErrors exactly
\* when its timeline has an error or timeout entry, and to each key's errors
\* the number of that key's error and timeout entries
ErrorRunsCounted ==
  (http'.n # http.n /\ http'.route = "run" /\ http'.ran) =>
     LET t0 == maybeResetTelemetry(telemetry, now)
         tl == http'.timeline
         hadError == \E i \in 1..Len(tl) : tl[i].status \in {"error", "timeout"}
     IN /\ telemetry'.totalRuns = t0.totalRuns + 1
        /\ telemetry'.totalErrors = t0.totalErrors + (IF hadError THEN 1 ELSE 0)
        /\ \A k \in VALID_MIDDLEWARE_KEYS :
             ErrorsOf(telemetry'.middlewares, k)
                = ErrorsOf(t0.middlewares, k) + FailingEntries(tl, k)

\* C37: in every telemetry state totalErrors <= totalRuns and every key has
\* errors <= count; a run adds to totalErrors exactly when its timeline has an
\* error or timeout entry, so a run that ends short-circuit or all ok adds to
\* neither totalErrors nor any key's errors.
C37_ErrorsNeverExceedRuns ==
  /\ []( /\ telemetry.totalErrors <= telemetry.totalRuns
         /\ \A k \in DOMAIN telemetry.middlewares :
              telemetry.middlewares[k].errors <= telemetry.middlewares[k].count )
  /\ [][ErrorRunsCounted]_vars

\* C37 witness: after a run that failed, a run that ended short-circuit has
\* been recorded and the error counters are those of the failed run alone
C37_Witness ==
  /\ http.route = "run"
  /\ http.ran
  /\ Len(http.timeline) = 2
  /\ http.timeline[2].status = "short-circuit"
  /\ telemetry.totalRuns = 2
  /\ telemetry.totalErrors = 1
  /\ ErrorsOf(telemetry.middlewares, "respond") = 0
  /\ ErrorsOf(telemetry.middlewares, "throwError") = 1

InFlight == { a \in 1..MaxActions : client.act[a].pc \in {"fetch", "sleep"} }

\* C38 (as claimed): apiCall retries only server errors and network failures:
\* no call makes more than retries + 1 fetches, and a call that received a
\* response with a non-5xx error status has ended with that error at once,
\* after exactly one fetch and no delay when it was the first response.
C38_RetriesOnlyServerErrors ==
  \A a \in 1..MaxActions :
    LET x == client.act[a]
    IN /\ x.fetches <= Retries + 1
       /\ x.refused =>
            /\ x.pc = "done"
            /\ x.result = "error"
            /\ x.attempt = 0 => (x.fetches = 1 /\ x.slept = 0)

\* C39 (as claimed): while a run or export request is in flight no second one
\* is started, by a click or by a keyboard shortcut, and pendingActions is the
\* number of actions in flight, so it is 0 once all of them have finished.
C39_NoDuplicateSubmission ==
  /\ Cardinality(InFlight) <= 1
  /\ client.pendingActions = Cardinality(InFlight)

====
